---- MODULE Spec2Model ----
(***************************************************************************)
(* A model of the ToolSocket protocol engine: the envelope and bundle      *)
(* codecs, the message schema, the reassembly buffer, and the connection   *)
(* object (send path, receive path, default routes, keepalive) of two      *)
(* connections joined by one transport.                                    *)
(***************************************************************************)
EXTENDS Integers, Sequences, FiniteSets, TLC

VARIABLES
    readyState,         \* socket.readyState of each connection's transport
    networkId,          \* ToolSocket.networkId
    responseCallbacks,  \* ToolSocket.responseCallbacks: id -> callback
    queuedMessages,     \* ToolSocket.queuedMessages
    binaryBuffer,       \* ToolSocket.binaryBuffer
    pingTimer,          \* whether the setInterval of setupPingInterval is armed
    wire,               \* transport frames in flight towards each connection
    responses,          \* the ToolSocketResponse objects created so far
    events,             \* what each connection has done, in order
    thrown,             \* whether an exception left a handler of the connection
    registry,           \* the ToolSocketServer: sockets, pendingParallelRequests
    budget,             \* how many more calls the environment may make
    eval,               \* the call of a library function made on its own: arguments, result
    eventCallbacks      \* ToolSocket.eventCallbacks: the application's listeners that send

vars == <<readyState, networkId, responseCallbacks, queuedMessages, binaryBuffer,
          pingTimer, wire, responses, events, thrown, registry, budget, eval,
          eventCallbacks>>

-----------------------------------------------------------------------------
(* Bounds of the model.                                                    *)

\* application calls of sendMethod, over both connections
MaxSends == 1
\* keepalive interval ticks, over both connections
MaxTicks == 1
\* calls of ToolSocketResponse.send made by application listeners
MaxReplies == 1
\* inbound frames an arbitrary peer hands to the receive path
MaxInbound == 4

-----------------------------------------------------------------------------
(* JavaScript values: a type tag, a string content and a numeric content.  *)

\* No library function is being evaluated on its own
NoEval == [fn |-> "none"]

JsNull == [t |-> "null", s |-> "", n |-> 0]
JsUndefined == [t |-> "undefined", s |-> "", n |-> 0]
JsStr(str) == [t |-> "string", s |-> str, n |-> 0]
JsNum(k) == [t |-> "number", s |-> "", n |-> k]
JsObj(name) == [t |-> "object", s |-> name, n |-> 0]

\* JavaScript truthiness of a value
Truthy(v) ==
    CASE v.t = "string" -> v.s # ""
      [] v.t = "number" -> v.n # 0
      [] v.t = "object" -> TRUE
      [] v.t = "array" -> TRUE
      [] v.t = "boolean" -> v.n # 0
      [] OTHER -> FALSE

MAX_MESSAGE_SIZE == 300 * 1024 * 1024

VALID_METHODS == {"action", "beat", "delete", "get", "io", "keys", "message", "new",
                  "patch", "ping", "post", "pub", "put", "res", "sub", "unsub"}

\* A string too long to write down: its length is one past the size ceiling.
HugeString == "<huge>"

\* string.length
StrLen(str) == IF str = HugeString THEN MAX_MESSAGE_SIZE + 1 ELSE Len(str)

\* The k-th character of a string, counted from 1
CharAt(str, k) == SubSeq(str, k, k)

Letters == {"a","b","c","d","e","f","g","h","i","j","k","l","m","n","o","p","q","r",
            "s","t","u","v","w","x","y","z","A","B","C","D","E","F","G","H","I","J",
            "K","L","M","N","O","P","Q","R","S","T","U","V","W","X","Y","Z"}
Digits == {"0","1","2","3","4","5","6","7","8","9"}

\* REGEXES.n, REGEXES.i, REGEXES.s: /^[A-Za-z0-9_]*$/
WordChars == Letters \cup Digits \cup {"_"}
\* REGEXES.r: /^[A-Za-z0-9_/?:&+.%=-]*$/
RouteChars == WordChars \cup {"/", "?", ":", "&", "+", ".", "%", "=", "-"}

\* REGEXES.query: /^[A-Za-z0-9~!@$%^&*()\-_=+{}|;:,./?]*$/
QueryChars == Letters \cup Digits \cup
              {"~", "!", "@", "$", "%", "^", "&", "*", "(", ")", "-", "_", "=", "+", "{",
               "}", "|", ";", ":", ",", ".", "/", "?"}
\* REGEXES.route: /^[A-Za-z0-9/~!@$%^&*()\-_=+|;:,.]*$/
UrlRouteChars == Letters \cup Digits \cup
                 {"/", "~", "!", "@", "$", "%", "^", "&", "*", "(", ")", "-", "_", "=", "+",
                  "|", ";", ":", ",", "."}
\* REGEXES.server: /^[A-Za-z0-9~!@$%^&*()\-_=+|;:,.]*$/
ServerChars == UrlRouteChars \ {"/"}

\* value.match(pattern) for a pattern /^[chars]*$/
Matches(str, chars) ==
    str # HugeString => \A k \in 1..Len(str) : CharAt(str, k) \in chars

-----------------------------------------------------------------------------
(* Schema.js: validators and schemas.  A limit or pattern that the source  *)
(* leaves null is NoLimit, or hasPattern / hasEnum FALSE.                  *)

NoLimit == 0 - 1

\* SchemaValidator's constructor: the options' defaults
Validator(kind, key) ==
    [kind |-> kind, key |-> key, required |-> FALSE, expected |-> FALSE,
     hasEnum |-> FALSE, enum |-> {},
     minLength |-> NoLimit, maxLength |-> NoLimit, hasPattern |-> FALSE, pattern |-> {},
     minValue |-> NoLimit, maxValue |-> NoLimit, validators |-> <<>>]

\* SchemaValidator.validate
BaseValidate(v, object) ==
    /\ (v.required => v.key \in DOMAIN object)
    /\ ~(v.key \in DOMAIN object /\ v.hasEnum /\ object[v.key] \notin v.enum)

\* The typed validators' validate, each after super.validate
TypedValidate(v, object) ==
    /\ BaseValidate(v, object)
    /\ \/ v.key \notin DOMAIN object
       \/ LET value == object[v.key] IN
          CASE v.kind = "string" ->
                 /\ value.t = "string"
                 /\ ~(v.minLength # NoLimit /\ StrLen(value.s) < v.minLength)
                 /\ ~(v.maxLength # NoLimit /\ StrLen(value.s) > v.maxLength)
                 /\ ~(v.hasPattern /\ ~Matches(value.s, v.pattern))
            [] v.kind = "number" ->
                 /\ value.t = "number"
                 /\ ~(v.minValue # NoLimit /\ value.n < v.minValue)
                 /\ ~(v.maxValue # NoLimit /\ value.n > v.maxValue)
            [] v.kind = "boolean" -> value.t = "boolean"
            [] v.kind = "null" -> value.t = "null"
            [] v.kind = "undefined" -> value.t = "undefined"
            [] v.kind = "array" ->
                 /\ value.t = "array"
                 /\ ~(v.minLength # NoLimit /\ value.n < v.minLength)
                 /\ ~(v.maxLength # NoLimit /\ value.n > v.maxLength)
            [] v.kind = "object" -> value.t \in {"object", "null"}
            [] OTHER -> FALSE

\* A faulty GroupValidator.validate that wants every sub-validator to pass:
\* the properties must tell it from validate
GroupValidateEvery(v, object) ==
    /\ BaseValidate(v, object)
    /\ \/ v.key \notin DOMAIN object
       \/ \A k \in 1..Len(v.validators) : TypedValidate(v.validators[k], object)

\* GroupValidator.validate
GroupValidate(v, object) ==
    /\ BaseValidate(v, object)
    /\ \/ v.key \notin DOMAIN object
       \/ \E k \in 1..Len(v.validators) : TypedValidate(v.validators[k], object)

ValidatorValidate(v, object) ==
    IF v.kind = "group" THEN GroupValidate(v, object) ELSE TypedValidate(v, object)

\* A faulty Schema.validate that goes on after a failure and keeps the last
\* validator that failed: the properties must tell it from validate
FailedValidatorLast(schema, object) ==
    LET failing == {k \in 1..Len(schema) : ~ValidatorValidate(schema[k], object)}
    IN IF failing = {} THEN 0 ELSE CHOOSE k \in failing : \A j \in failing : k >= j

\* Schema.validate: the index of the first validator that fails, 0 when none does
FailedValidator(schema, object) ==
    LET failing == {k \in 1..Len(schema) : ~ValidatorValidate(schema[k], object)}
    IN IF failing = {} THEN 0 ELSE CHOOSE k \in failing : \A j \in failing : k <= j

SchemaValidate(schema, object) == FailedValidator(schema, object) = 0

MESSAGE_BUNDLE_SCHEMA ==
    << [Validator("group", "i") EXCEPT !.validators =
           << [Validator("string", "i") EXCEPT !.minLength = 1, !.maxLength = 22,
                  !.hasPattern = TRUE, !.pattern = WordChars],
              Validator("null", "i"),
              Validator("undefined", "i") >>],
       [Validator("string", "o") EXCEPT !.hasEnum = TRUE, !.required = TRUE,
           !.enum = {JsStr("server"), JsStr("client"), JsStr("web"), JsStr("edge"),
                     JsStr("proxy")}],
       [Validator("string", "n") EXCEPT !.minLength = 1, !.maxLength = 25,
           !.hasPattern = TRUE, !.pattern = WordChars, !.required = TRUE],
       [Validator("string", "m") EXCEPT !.hasEnum = TRUE, !.required = TRUE,
           !.enum = {JsStr(method) : method \in VALID_METHODS}],
       [Validator("string", "r") EXCEPT !.minLength = 0, !.maxLength = 2000,
           !.hasPattern = TRUE, !.pattern = RouteChars, !.required = TRUE],
       [Validator("group", "b") EXCEPT !.required = TRUE, !.validators =
           << Validator("boolean", "b"),
              [Validator("array", "b") EXCEPT !.minLength = 0,
                  !.maxLength = MAX_MESSAGE_SIZE],
              Validator("number", "b"),
              [Validator("string", "b") EXCEPT !.minLength = 0,
                  !.maxLength = MAX_MESSAGE_SIZE],
              Validator("object", "b") >>],
       [Validator("group", "s") EXCEPT !.validators =
           << [Validator("string", "s") EXCEPT !.minLength = 0, !.maxLength = 45,
                  !.hasPattern = TRUE, !.pattern = WordChars],
              Validator("null", "s"),
              Validator("undefined", "s") >>],
       [Validator("group", "f") EXCEPT !.validators =
           << [Validator("number", "f") EXCEPT !.minValue = 1, !.maxValue = 99],
              Validator("null", "f"),
              Validator("undefined", "f") >>] >>

VALID_FILETYPES ==
    {"css", "csv", "dat", "fbx", "gif", "glb", "htm", "html", "jpg", "jpeg", "js", "json",
     "map", "mp4", "obj", "otf", "pdf", "ply", "png", "splat", "svg", "ttf", "wasm", "webm",
     "webp", "woff", "xml", "zip", "3dt"}

URL_SCHEMA ==
    << [Validator("string", "n") EXCEPT !.minLength = 1, !.maxLength = 25,
           !.hasPattern = TRUE, !.pattern = WordChars, !.required = TRUE,
           !.expected = TRUE],
       [Validator("string", "type") EXCEPT !.hasEnum = TRUE,
           !.enum = {JsStr(type) : type \in VALID_FILETYPES}],
       [Validator("string", "protocol") EXCEPT !.hasEnum = TRUE,
           !.enum = {JsStr("spatialtoolbox"), JsStr("ws"), JsStr("wss"), JsStr("http"),
                     JsStr("https")}],
       [Validator("string", "query") EXCEPT !.minLength = 0, !.maxLength = 2000,
           !.hasPattern = TRUE, !.pattern = QueryChars],
       [Validator("string", "route") EXCEPT !.minLength = 0, !.maxLength = 2000,
           !.hasPattern = TRUE, !.pattern = UrlRouteChars],
       [Validator("string", "server") EXCEPT !.minLength = 0, !.maxLength = 2000,
           !.hasPattern = TRUE, !.pattern = ServerChars],
       [Validator("number", "port") EXCEPT !.minValue = 0, !.maxValue = 99999] >>

-----------------------------------------------------------------------------
(* Schema.js: parseRoute and parseUrl.  Strings are strings; a parsed      *)
(* object is a function from its keys to their values; a result is the     *)
(* object, or null.                                                        *)

\* string.includes(ch)
Includes(str, ch) == \E k \in 1..Len(str) : CharAt(str, k) = ch

\* The position of the first ch of a string that includes it, counted from 1
StringIndexOf(str, ch) ==
    CHOOSE k \in 1..Len(str) :
       CharAt(str, k) = ch /\ \A j \in 1..(k - 1) : CharAt(str, j) # ch

\* string.split(ch)
Split(str, ch) ==
    LET cuts == {k \in 1..Len(str) : CharAt(str, k) = ch}
        Cut(j) == IF j = 0 THEN 0
                  ELSE IF j > Cardinality(cuts) THEN Len(str) + 1
                  ELSE CHOOSE k \in cuts : Cardinality({i \in cuts : i <= k}) = j
    IN [j \in 1..(Cardinality(cuts) + 1) |-> SubSeq(str, Cut(j - 1) + 1, Cut(j) - 1)]

\* array.at(-1)
Last(array) == array[Len(array)]

\* object[key] = value
With(object, key, value) ==
    [x \in DOMAIN object \cup {key} |-> IF x = key THEN value ELSE object[x]]

\* {...first, ...second}
Spread(first, second) ==
    [x \in DOMAIN first \cup DOMAIN second |->
        IF x \in DOMAIN second THEN second[x] ELSE first[x]]

\* Schema.expectedKeys
ExpectedKeys(schema) == {schema[k].key : k \in {j \in 1..Len(schema) : schema[j].expected}}

\* A faulty test that stores the segment after a key even when it is empty:
\* the properties must tell it from the test of parseRoute
HasValueOrEmpty(pathSegments, i) == i + 1 <= Len(pathSegments)

\* if (pathSegments[i + 1]): there is a segment after the key and it is not
\* empty
HasValue(pathSegments, i) == i + 1 <= Len(pathSegments) /\ pathSegments[i + 1] # ""

\* The loop of parseRoute from the segment i on
RECURSIVE Walk(_, _, _, _)
Walk(keys, pathSegments, i, parsedRoute) ==
    IF i > Len(pathSegments) THEN parsedRoute
    ELSE IF pathSegments[i] \in keys
    THEN Walk(keys, pathSegments, i + 2,
              IF HasValue(pathSegments, i)
              THEN With(parsedRoute, pathSegments[i], JsStr(pathSegments[i + 1]))
              ELSE parsedRoute)
    ELSE IF pathSegments[i] = ""
    THEN Walk(keys, pathSegments, i + 1, parsedRoute)
    ELSE Walk(keys, pathSegments, i + 1,
              [parsedRoute EXCEPT !["route"] = JsStr(@.s \o "/" \o pathSegments[i])])

\* No object: the functions return null
Null == [null |-> TRUE, value |-> <<>>]
Object(value) == [null |-> FALSE, value |-> value]

\* Schema.parseRoute(route, skipValidation)
parseRoute(schema, route, skipValidation) ==
    LET query == IF Includes(route, "?")
                 THEN SubSeq(route, StringIndexOf(route, "?") + 1, Len(route)) ELSE ""
        pathname == Split(route, "?")[1]
        pathSegments == Split(pathname, "/")
        lastPathSegment == Last(pathSegments)
        plain == [route |-> JsStr(""), query |-> JsStr(query)]
        typed == IF Len(Split(lastPathSegment, ".")) > 1
                 THEN With(plain, "type", JsStr(Last(Split(lastPathSegment, "."))))
                 ELSE plain
        parsedRoute == Walk(ExpectedKeys(schema), pathSegments, 1, typed)
    IN IF skipValidation \/ SchemaValidate(schema, parsedRoute)
       THEN Object(parsedRoute) ELSE Null

\* The value of a decimal digit
DigitValue(ch) == CHOOSE d \in 0..9 : CharAt("0123456789", d + 1) = ch

\* parseInt of a string of decimal digits
RECURSIVE ParseInt(_)
ParseInt(str) ==
    IF str = "" THEN 0
    ELSE ParseInt(SubSeq(str, 1, Len(str) - 1)) * 10 + DigitValue(CharAt(str, Len(str)))

\* A faulty choice of the port that never looks at url.port: the properties
\* must tell it from the choice of parseUrl
PortOfScheme(url, protocol) ==
    IF protocol \in {"wss", "https"} THEN 443
    ELSE IF protocol \in {"ws", "http"} THEN 80
    ELSE NoLimit

\* The port parseUrl takes for the URL; NoLimit (-1) when it returns null
PortOf(url, protocol) ==
    IF url.port # "" THEN ParseInt(url.port)
    ELSE IF protocol \in {"wss", "https"} THEN 443
    ELSE IF protocol \in {"ws", "http"} THEN 80
    ELSE NoLimit

\* Schema.parseUrl(url).  The url is a URL object: protocol (with its colon),
\* hostname, port (a string, empty when the URL has none), pathname, and
\* searchParams, here the text of searchParams.toString().
parseUrl(schema, url) ==
    LET protocol == SubSeq(url.protocol, 1, Len(url.protocol) - 1)
        port == PortOf(url, protocol)
        parsedRoute == parseRoute(schema, url.pathname, TRUE).value
        parsedUrl == With(Spread([protocol |-> JsStr(protocol),
                                  server |-> JsStr(url.hostname),
                                  port |-> JsNum(port)], parsedRoute),
                          "query", JsStr(url.searchParams))
    IN IF port = NoLimit THEN Null
       ELSE IF SchemaValidate(schema, parsedUrl) THEN Object(parsedUrl) ELSE Null

-----------------------------------------------------------------------------
(* ToolSocketMessage.js: the envelope and its JSON text.  The field q is   *)
(* history only: the number of the request the envelope belongs to (0 for  *)
(* none); nothing the program does reads it.                               *)

EnvelopeKeys == {"o", "n", "m", "r", "b", "i", "s", "f"}

\* new ToolSocketMessage(origin, network, method, route, body, id)
ToolSocketMessage(origin, network, method, route, body, id) ==
    [o |-> origin, n |-> network, m |-> method, r |-> route, b |-> body, i |-> id,
     s |-> JsNull, f |-> JsNull, q |-> 0]

\* The length of JSON.stringify(value)
ValueLen(value) ==
    CASE value.t = "string" -> StrLen(value.s) + 2
      [] value.t = "number" -> IF value.n < 0 THEN 2 ELSE IF value.n < 10 THEN 1
                               ELSE IF value.n < 100 THEN 2 ELSE 3
      [] value.t = "null" -> 4
      [] value.t = "boolean" -> IF value.n = 0 THEN 5 ELSE 4
      [] value.t = "array" -> 2
      [] OTHER -> StrLen(value.s) + 2

RECURSIVE SumLen(_, _)
SumLen(obj, keys) ==
    IF keys = {} THEN 0
    ELSE LET k == CHOOSE x \in keys : TRUE
         IN 5 + ValueLen(obj[k]) + SumLen(obj, keys \ {k})

\* A text that is not the JSON of an object
Garbage == [kind |-> "text", ok |-> FALSE, obj |-> <<>>, len |-> 3, q |-> 0]

\* JSON.stringify(message): keys whose value is undefined are left out
Stringify(message) ==
    LET present == {k \in EnvelopeKeys : message[k] # JsUndefined}
        obj == [k \in present |-> message[k]]
    IN [kind |-> "text", ok |-> TRUE, obj |-> obj, len |-> 1 + SumLen(obj, present),
        q |-> message.q]

\* object.key of a decoded JSON object
Get(obj, key) == IF key \in DOMAIN obj THEN obj[key] ELSE JsUndefined

\* ToolSocketMessage.fromString: threw, or the message
MessageFromString(text) ==
    IF ~text.ok \/ \E k \in {"o", "n", "m", "r", "b"} : Get(text.obj, k) = JsUndefined
    THEN [threw |-> TRUE,
          message |-> ToolSocketMessage(JsUndefined, JsUndefined, JsUndefined,
                                        JsUndefined, JsUndefined, JsUndefined)]
    ELSE [threw |-> FALSE,
          message |-> [ToolSocketMessage(Get(text.obj, "o"), Get(text.obj, "n"),
                                         Get(text.obj, "m"), Get(text.obj, "r"),
                                         Get(text.obj, "b"), Get(text.obj, "i"))
                       EXCEPT !.s = IF Get(text.obj, "s") # JsUndefined
                                    THEN Get(text.obj, "s") ELSE JsNull,
                              !.f = IF Get(text.obj, "f") # JsUndefined
                                    THEN Get(text.obj, "f") ELSE JsNull,
                              !.q = text.q]]

-----------------------------------------------------------------------------
(* utilities.js, MessageBundle.js, BinaryBuffer.js.                        *)
(* A chunk is the content of one Uint8Array: a name and a byte length.     *)
(* The binaryData of a bundle is none (null), one chunk, or an array.      *)

Chunk(name, len) == [name |-> name, len |-> len]
EmptyChunk == Chunk("", 0)

NoBinary == [kind |-> "none", items |-> <<>>]
SingleBinary(chunk) == [kind |-> "single", items |-> <<chunk>>]
ArrayBinary(chunks) == [kind |-> "array", items |-> chunks]

\* new MessageBundle(message, binaryData)
MessageBundle(message, binaryData) == [message |-> message, binaryData |-> binaryData]

\* A JavaScript number that is an integer of [0, 2^32-1], kept as its two
\* 16-bit halves: the number is hi * 2^16 + lo
UInt(hi, lo) == [hi |-> hi, lo |-> lo]
UIntOf(n) == UInt(n \div 65536, n % 65536)

\* The sum of two such numbers (JavaScript's + on doubles is exact here)
Plus(a, b) == UInt(a.hi + b.hi + (a.lo + b.lo) \div 65536, (a.lo + b.lo) % 65536)

\* ToInt32, the conversion every bitwise operator applies to its operands: the
\* number modulo 2^32 read as a signed 32-bit integer
ToInt32(num) ==
    IF num.hi >= 32768 THEN (num.hi - 65536) * 65536 + num.lo ELSE num.hi * 65536 + num.lo

\* x >> k on a signed 32-bit integer: the sign is kept
ShiftRight(x, k) == x \div (2 ^ k)

\* x << k for a byte x and k <= 16: no bit leaves the 32
ShiftLeft(x, k) == x * (2 ^ k)

\* x & 255 on a signed 32-bit integer
And255(x) == x % 256

\* intToByte
intToByte(num) ==
    << And255(ShiftRight(ToInt32(num), 24)), And255(ShiftRight(ToInt32(num), 16)),
       And255(ShiftRight(ToInt32(num), 8)), And255(ToInt32(num)) >>

\* A faulty byteToInt that shifts the first byte left by 24 as it does the
\* others, so that the sum is that of signed 32-bit integers: the properties
\* must tell it from byteToInt
byteToIntShifted(byteArray) ==
    UInt((IF byteArray[1] >= 128 THEN byteArray[1] - 256 ELSE byteArray[1]) * 256
            + byteArray[2],
         byteArray[3] * 256 + byteArray[4])

\* byteToInt: the first byte times Math.pow(2, 24), the others shifted
byteToInt(byteArray) ==
    Plus(Plus(Plus(UInt(byteArray[1] * 256, 0), UIntOf(ShiftLeft(byteArray[2], 16))),
              UIntOf(ShiftLeft(byteArray[3], 8))),
         UIntOf(byteArray[4]))

\* A binary transport frame: the first four bytes (<<>> when the content is not
\* that of a framed bundle), the JSON text that follows them, the chunk after
\* the text, and whole, the content taken as one chunk.
RawFrame(chunk) ==
    [kind |-> "binary", prefix |-> <<>>, json |-> Garbage, rest |-> EmptyChunk,
     whole |-> chunk, len |-> chunk.len]

\* MessageBundle.toBinary, for a bundle whose binaryData is no array
ToBinary(bundle) ==
    LET json == Stringify(bundle.message)
        binaryDataBuffer == IF bundle.binaryData.kind = "single"
                            THEN bundle.binaryData.items[1] ELSE EmptyChunk
        total == 4 + json.len + binaryDataBuffer.len
    IN [kind |-> "binary", prefix |-> intToByte(UIntOf(json.len)), json |-> json,
        rest |-> binaryDataBuffer, whole |-> Chunk("framed", total), len |-> total]

\* MessageBundle.fromString: threw, or the bundle
BundleFromString(text) ==
    LET parsed == MessageFromString(text)
    IN [threw |-> parsed.threw, bundle |-> MessageBundle(parsed.message, NoBinary)]

\* A faulty fromBinary that takes all the bytes for the payload: the
\* properties must tell it from fromBinary
BundleFromBinaryWhole(binary) ==
    LET aligned == binary.prefix # <<>> /\ byteToInt(binary.prefix) = UIntOf(binary.json.len)
        parsed == MessageFromString(IF aligned THEN binary.json ELSE Garbage)
    IN [threw |-> parsed.threw,
        bundle |-> MessageBundle(parsed.message, SingleBinary(binary.whole))]

\* MessageBundle.fromBinary: threw, or the bundle.  Bytes that do not start with
\* the length of a JSON text that follows are not the JSON of an envelope.
BundleFromBinary(binary) ==
    LET aligned == binary.prefix # <<>> /\ byteToInt(binary.prefix) = UIntOf(binary.json.len)
        parsed == MessageFromString(IF aligned THEN binary.json ELSE Garbage)
    IN [threw |-> parsed.threw,
        bundle |-> MessageBundle(parsed.message, SingleBinary(binary.rest))]

\* new BinaryBuffer(length); mainMessage is set by the caller
BinaryBuffer(length, mainMessage) ==
    [pending |-> TRUE, length |-> length, mainMessage |-> mainMessage,
     messageBuffer |-> <<>>]

\* this.binaryBuffer = null
NoBuffer ==
    [pending |-> FALSE, length |-> JsNull,
     mainMessage |-> ToolSocketMessage(JsNull, JsNull, JsNull, JsNull, JsNull, JsNull),
     messageBuffer |-> <<>>]

\* count >= length of JavaScript, length converted to a number: a string that
\* is no numeral and an object convert to NaN, and every comparison with NaN
\* is false.
GreaterEqual(count, length) ==
    CASE length.t = "number" -> count >= length.n
      [] length.t \in {"null", "boolean"} -> count >= length.n
      [] length.t = "string" /\ length.s = "" -> count >= 0
      [] length.t = "array" -> count >= 0
      [] OTHER -> FALSE

\* A faulty isFull that answers one frame early: the properties must tell it
\* from isFull
IsFullEarly(buffer) == GreaterEqual(Len(buffer.messageBuffer) + 1, buffer.length)

\* BinaryBuffer.isFull
IsFull(buffer) == GreaterEqual(Len(buffer.messageBuffer), buffer.length)

\* A faulty push that does not look at isFull: the properties must tell it
\* from push
PushUnchecked(buffer, frame) ==
    [threw |-> FALSE, buffer |-> [buffer EXCEPT !.messageBuffer = Append(@, frame)]]

\* BinaryBuffer.push: threw (the buffer as it was), or the buffer with the frame
Push(buffer, frame) ==
    IF IsFull(buffer)
    THEN [threw |-> TRUE, buffer |-> buffer]
    ELSE [threw |-> FALSE,
          buffer |-> [buffer EXCEPT !.messageBuffer = Append(@, frame)]]

\* A faulty fromBinaryBuffer that does not look at isFull: the properties must
\* tell it from fromBinaryBuffer
BundleFromPartialBuffer(buffer) ==
    [threw |-> FALSE,
     bundle |-> MessageBundle(buffer.mainMessage,
                              ArrayBinary([k \in 1..Len(buffer.messageBuffer) |->
                                              buffer.messageBuffer[k].whole]))]

\* MessageBundle.fromBinaryBuffer: threw, or the bundle
BundleFromBinaryBuffer(buffer) ==
    [threw |-> ~IsFull(buffer),
     bundle |-> MessageBundle(buffer.mainMessage,
                              ArrayBinary([k \in 1..Len(buffer.messageBuffer) |->
                                              buffer.messageBuffer[k].whole]))]

-----------------------------------------------------------------------------
(* ToolSocket.js and ToolSocketResponse: one connection.  The operators    *)
(* below take the connection as a record c (its fields are the variables   *)
(* of the connection, its origin, and out: the frames handed to            *)
(* socket.send) and give the connection after the call.                    *)

Conns == {"client", "server"}

\* The connections a ToolSocketServer makes: the one of the client, and the
\* one of a second, parallel socket of the client
ServerSide == {"server", "incoming"}

\* The connection at the other end of the transport of e
Peer(e) ==
    CASE e = "client" -> "server"
      [] e = "server" -> "client"
      [] e = "parallel" -> "incoming"
      [] OTHER -> "parallel"

\* The origin each connection is constructed with
Origin(e) == IF e \in ServerSide THEN JsStr("server") ELSE JsStr("client")

\* The outcomes of generateUniqueId
Ids == {"idA", "idB"}

\* generateUniqueId(length): any string of the alphabet may come out
generateUniqueId == Ids

NoCallback == [kind |-> "none", req |-> 0]
\* the callback of autoPing: () => this.triggerEvent('pong')
PongCallback(call) == [kind |-> "pong", req |-> call]
\* the callback the application passes with its req-th request
AppCallback(req) == [kind |-> "app", req |-> req]

Put(map, key, value) ==
    [k \in DOMAIN map \cup {key} |-> IF k = key THEN value ELSE map[k]]
Remove(map, key) == [k \in DOMAIN map \ {key} |-> map[k]]

\* The listeners the application of the model may add: one of 'open', one of
\* 'status', and two of 'rawSend', of which the second looks at the data and
\* acts only on the control envelope and the frames of a list.  A listener
\* calls post from inside the event, as many times as its count says: once
\* per event, until the count is used up.
Listeners == {"open", "status", "rawSend", "rawSendOfList"}

\* No listener of the application sends
NoListener == [listener \in Listeners |-> 0]
NoListeners == [e \in {"client", "server", "parallel", "incoming"} |-> NoListener]

\* The data handed to the socket is the control envelope of a list of frames,
\* or one of the frames
OfList(sendData) ==
    IF sendData.kind = "text"
    THEN sendData.ok /\ Get(sendData.obj, "f").t = "number"
    ELSE sendData.prefix = <<>>

\* this.eventCallbacks[eventType]: the application's listeners of the event,
\* in the order they were added
ListenersOf(event) ==
    CASE event.type \in {"open", "status"} -> <<event.type>>
      [] event.type = "rawSend" ->
           IF OfList(event.data) THEN <<"rawSend", "rawSendOfList">> ELSE <<"rawSend">>
      [] OTHER -> <<>>

\* The number of the call a listener makes: negative, one for every listener
\* and count
ListenerCall(listener, count) ==
    0 - ((CASE listener = "open" -> 10 [] listener = "status" -> 20
            [] listener = "rawSend" -> 30 [] OTHER -> 40) + count)

RECURSIVE SendMethod(_, _, _, _, _, _, _, _)
RECURSIVE Heard(_, _)
\* this.eventCallbacks[eventType].forEach(callback => callback(...args)): a
\* listener that has a call left calls post
Heard(c, listeners) ==
    IF listeners = <<>> THEN c
    ELSE LET count == c.eventCallbacks[Head(listeners)]
         IN Heard(IF count > 0
                  THEN SendMethod([c EXCEPT !.eventCallbacks[Head(listeners)] = count - 1],
                                  ListenerCall(Head(listeners), count), "post",
                                  JsStr("/listener"), JsStr(Head(listeners)), NoCallback,
                                  NoBinary, "")
                  ELSE c,
                  Tail(listeners))

\* triggerEvent(eventType, ...args): the record of what was triggered, and
\* the calls of the application's listeners of the event
Emit(c, event) == Heard([c EXCEPT !.events = Append(@, event)], ListenersOf(event))

\* A faulty transport send that raises no rawSend: the properties must tell it
\* from the transport send of send
SocketSendUnseen(c, sendData) == [c EXCEPT !.out = Append(@, sendData)]

\* this.socket.send(sendData); this.triggerEvent('rawSend', sendData)
SocketSend(c, sendData) ==
    Emit([c EXCEPT !.out = Append(@, sendData)], [type |-> "rawSend", data |-> sendData])

\* A faulty forEach that leaves out the last entry: the properties must tell
\* it from the forEach of send
SendFramesButLast(c, entries) ==
    [c EXCEPT !.out = @ \o [k \in 1..(Len(entries) - 1) |-> RawFrame(entries[k])],
              !.events = @ \o [k \in 1..(Len(entries) - 1) |->
                                 [type |-> "rawSend", data |-> RawFrame(entries[k])]]]

RECURSIVE SendFrames(_, _)
\* messageBundle.binaryData.forEach(entry => ...) of send: every entry, in
\* order, is handed to the socket and raises rawSend.  Once no listener of
\* rawSend has a call left, the remaining entries and their events are written
\* as one append.
SendFrames(c, entries) ==
    IF entries = <<>> THEN c
    ELSE IF c.eventCallbacks["rawSend"] > 0 \/ c.eventCallbacks["rawSendOfList"] > 0
    THEN SendFrames(SocketSend(c, RawFrame(Head(entries))), Tail(entries))
    ELSE [c EXCEPT !.out = @ \o [k \in 1..Len(entries) |-> RawFrame(entries[k])],
                   !.events = @ \o [k \in 1..Len(entries) |->
                                      [type |-> "rawSend", data |-> RawFrame(entries[k])]]]

\* A faulty connected that takes every socket that is not connecting for an
\* open one: the properties must tell it from connected
ConnectedOnce(c) == c.readyState # "CONNECTING"

\* get connected(): the socket is there and open
Connected(c) == c.readyState = "OPEN"

\* A faulty push that registers the callback when the message is queued: the
\* properties must tell it from the push of send
QueuedRegistered(c, messageBundle, callback) ==
    [c EXCEPT !.queuedMessages =
                 Append(@, [messageBundle |-> messageBundle, callback |-> callback]),
              !.responseCallbacks =
                 IF callback.kind # "none" THEN Put(@, "idA", callback) ELSE @]

\* this.queuedMessages.push({messageBundle, callback})
Queued(c, messageBundle, callback) ==
    [c EXCEPT !.queuedMessages =
         Append(@, [messageBundle |-> messageBundle, callback |-> callback])]

\* ToolSocket.send(messageBundle, callback); id is what generateUniqueId gives
\* when it is called.  The callback in the record of the 'send' event is
\* history: the event itself carries the bundle only.
Send(c, messageBundle, callback, id) ==
    IF ~Connected(c)
    THEN Queued(c, messageBundle, callback)
    ELSE LET hasCallback == callback.kind # "none"
             message == IF hasCallback
                        THEN [messageBundle.message EXCEPT !.i = JsStr(id)]
                        ELSE messageBundle.message
             c1 == IF hasCallback
                   THEN [c EXCEPT !.responseCallbacks = Put(@, id, callback)]
                   ELSE c
             binaryData == messageBundle.binaryData
         IN CASE binaryData.kind = "array" ->
                   LET framed == [message EXCEPT !.f = JsNum(Len(binaryData.items))]
                   IN Emit(SendFrames(SocketSend(c1, Stringify(framed)), binaryData.items),
                           [type |-> "send", bundle |-> MessageBundle(framed, binaryData),
                            callback |-> callback])
              [] binaryData.kind = "single" ->
                   Emit(SocketSend(c1, ToBinary(MessageBundle(message, binaryData))),
                        [type |-> "send", bundle |-> MessageBundle(message, binaryData),
                         callback |-> callback])
              [] OTHER ->
                   Emit(SocketSend(c1, Stringify(message)),
                        [type |-> "send", bundle |-> MessageBundle(message, binaryData),
                         callback |-> callback])

\* ToolSocket.sendMethod(method, route, body, callback, binaryData); call is
\* the number of the call
SendMethod(c, call, method, route, body, callback, binaryData, id) ==
    LET message == [ToolSocketMessage(c.origin, c.networkId, JsStr(method), route, body,
                                      JsUndefined) EXCEPT !.q = call]
    IN Send(c, MessageBundle(message, binaryData), callback, id)

\* new ToolSocketResponse(toolSocket, originalMessage)
ToolSocketResponse(originalMessage) == [originalMessage |-> originalMessage, sent |-> FALSE]

\* A faulty ToolSocketResponse.send that does not look at sent: the properties
\* must tell it from send
ResponseSendAgain(c, h, body, binaryData) ==
    LET original == c.responses[h].originalMessage
        message == [ToolSocketMessage(c.origin, original.n, JsStr("res"), original.r,
                                      body, original.i) EXCEPT !.q = original.q]
    IN Send([c EXCEPT !.responses[h].sent = TRUE],
            MessageBundle(message, binaryData), NoCallback, "")

\* A faulty ToolSocketResponse.send that sends the body as it was given: the
\* properties must tell it from send
ResponseSendBare(c, h, body, binaryData) ==
    IF c.responses[h].sent
    THEN c
    ELSE LET original == c.responses[h].originalMessage
             message == [ToolSocketMessage(c.origin, original.n, JsStr("res"), original.r,
                                           body, original.i) EXCEPT !.q = original.q]
         IN Send([c EXCEPT !.responses[h].sent = TRUE],
                 MessageBundle(message, binaryData), NoCallback, "")

\* ToolSocketResponse.send(body, binaryData) of the h-th response object
ResponseSend(c, h, body, binaryData) ==
    IF c.responses[h].sent
    THEN c
    ELSE LET original == c.responses[h].originalMessage
             b == IF body \in {JsUndefined, JsNull} THEN JsNum(204) ELSE body
             message == [ToolSocketMessage(c.origin, original.n, JsStr("res"), original.r,
                                           b, original.i) EXCEPT !.q = original.q]
         IN Send([c EXCEPT !.responses[h].sent = TRUE],
                 MessageBundle(message, binaryData), NoCallback, "")

\* A faulty 'ping' listener that takes every network id that is not its own,
\* 'toolbox' included: the properties must tell it from the listener
OnPingAdopting(c, h, messageBundle) ==
    IF h = 0
    THEN [c EXCEPT !.thrown = TRUE]
    ELSE LET c1 == ResponseSend(c, h, JsStr("pong"), NoBinary)
             network == messageBundle.message.n
         IN IF network # c1.networkId
            THEN [Emit(c1, [type |-> "network", network |-> network,
                            previous |-> c1.networkId])
                  EXCEPT !.networkId = network]
            ELSE c1

\* The default 'ping' listener; h is the response object (0: null)
OnPing(c, h, messageBundle) ==
    IF h = 0
    THEN [c EXCEPT !.thrown = TRUE]
    ELSE LET c1 == ResponseSend(c, h, JsStr("pong"), NoBinary)
             network == messageBundle.message.n
         IN IF network # JsStr("toolbox") /\ network # c1.networkId
            THEN [Emit(c1, [type |-> "network", network |-> network,
                            previous |-> c1.networkId])
                  EXCEPT !.networkId = network]
            ELSE c1

\* The default 'meta' listener
OnMeta(c, messageBundle) ==
    CASE messageBundle.message.r = JsStr("requestParallel") ->
           Emit(c, [type |-> "requestParallel", body |-> messageBundle.message.b])
      [] messageBundle.message.r = JsStr("confirmParallel") ->
           Emit(c, [type |-> "confirmParallel", body |-> messageBundle.message.b])
      [] OTHER -> c

\* The default 'io' listener: triggerEvent(route, body, binaryData).  The event
\* 'io' of the history stands for the call of the application's listeners of
\* that name.  The listeners of a name run in the order they were added: under
\* 'ping' the default ping listener comes first, is called with the body for
\* response object, and throws before any other listener runs.
OnIo(c, messageBundle) ==
    IF messageBundle.message.r = JsStr("ping")
    THEN [c EXCEPT !.thrown = TRUE]
    ELSE Emit(c, [type |-> "io", route |-> messageBundle.message.r,
                  body |-> messageBundle.message.b,
                  binaryData |-> messageBundle.binaryData])

\* A faulty 'res' listener that calls the callback and keeps the entry: the
\* properties must tell it from the listener
OnResKeep(c, messageBundle) ==
    LET id == messageBundle.message.i IN
    IF Truthy(id) /\ id.t = "string" /\ id.s \in DOMAIN c.responseCallbacks
    THEN Emit(c, [type |-> "callback", callback |-> c.responseCallbacks[id.s],
                  body |-> messageBundle.message.b,
                  binaryData |-> messageBundle.binaryData, q |-> messageBundle.message.q])
    ELSE c

\* The default 'res' listener.  responseCallbacks is a plain object: the id
\* "__proto__" finds the prototype, which is truthy and cannot be called.
OnRes(c, messageBundle) ==
    LET id == messageBundle.message.i IN
    IF Truthy(id) /\ id.t = "string" /\ id.s = "__proto__"
    THEN [c EXCEPT !.thrown = TRUE]
    ELSE IF Truthy(id) /\ id.t = "string" /\ id.s \in DOMAIN c.responseCallbacks
    THEN LET callback == c.responseCallbacks[id.s]
             invoked == Emit(c, [type |-> "callback", callback |-> callback,
                                 body |-> messageBundle.message.b,
                                 binaryData |-> messageBundle.binaryData,
                                 q |-> messageBundle.message.q])
             called == IF callback.kind = "pong"
                       THEN Emit(invoked, [type |-> "pong"])
                       ELSE invoked
         IN [called EXCEPT !.responseCallbacks = Remove(@, id.s)]
    ELSE c

\* A faulty choice that makes a response object for every message: the
\* properties must tell it from the choice of routeMessage
WantsResponseAlways(message) == TRUE

\* messageBundle.message.id ? new ToolSocketResponse(...) : null
WantsResponse(message) == Truthy(message.i)

\* The end of routeMessage: the dispatch to the listeners of the method
Dispatch(c, messageBundle) ==
    LET message == messageBundle.message
        wantsResponse == WantsResponse(message)
        c1 == IF wantsResponse
              THEN [c EXCEPT !.responses = Append(@, ToolSocketResponse(message))]
              ELSE c
        h == IF wantsResponse THEN Len(c1.responses) ELSE 0
        c2 == Emit(c1, [type |-> "dispatch", method |-> message.m.s, route |-> message.r,
                        body |-> message.b, response |-> h,
                        binaryData |-> messageBundle.binaryData,
                        bundle |-> messageBundle, q |-> message.q])
    IN CASE message.m.s = "ping" -> OnPing(c2, h, messageBundle)
         [] message.m.s = "meta" -> OnMeta(c2, messageBundle)
         [] message.m.s = "io" -> OnIo(c2, messageBundle)
         [] message.m.s = "res" -> OnRes(c2, messageBundle)
         [] OTHER -> c2

\* A faulty drop that fires no event: the properties must tell it from the
\* drop of routeMessage
DroppedSilently(c, message) == c

\* console.warn(...); this.triggerEvent('droppedMessage', message)
Dropped(c, message) == Emit(c, [type |-> "droppedMessage", data |-> message])

\* A faulty end of routeMessage that does not validate: the properties must
\* tell it from routeMessage
ValidatedUnchecked(c, message, messageBundle, messageLength) ==
    IF messageLength > MAX_MESSAGE_SIZE
    THEN Dropped(c, message)
    ELSE IF messageBundle.message.m.t = "string" /\ messageBundle.message.m.s \in VALID_METHODS
    THEN Dispatch(c, messageBundle)
    ELSE c

\* A faulty end of routeMessage that forgets the pending buffer: the
\* properties must tell it from routeMessage
ValidatedForgetting(c, message, messageBundle, messageLength) ==
    IF ~SchemaValidate(MESSAGE_BUNDLE_SCHEMA, messageBundle.message)
    THEN Dropped(c, message)
    ELSE IF messageLength > MAX_MESSAGE_SIZE
    THEN Dropped(c, message)
    ELSE IF messageBundle.message.m.t = "string" /\ messageBundle.message.m.s \in VALID_METHODS
    THEN Dispatch([c EXCEPT !.binaryBuffer = NoBuffer], messageBundle)
    ELSE c

\* routeMessage from the schema validation on
Validated(c, message, messageBundle, messageLength) ==
    IF ~SchemaValidate(MESSAGE_BUNDLE_SCHEMA, messageBundle.message)
    THEN Dropped(c, message)
    ELSE IF messageLength > MAX_MESSAGE_SIZE
    THEN Dropped(c, message)
    ELSE IF messageBundle.message.m.t = "string" /\ messageBundle.message.m.s \in VALID_METHODS
    THEN Dispatch(c, messageBundle)
    ELSE c

\* A faulty set-up of the buffer that keeps a buffer that is pending: the
\* properties must tell it from the set-up of routeMessage
AnnouncedKept(c, mainMessage) ==
    IF c.binaryBuffer.pending THEN c
    ELSE [c EXCEPT !.binaryBuffer = BinaryBuffer(mainMessage.f, mainMessage)]

\* this.binaryBuffer = new BinaryBuffer(frameCount); its mainMessage is the
\* control envelope
Announced(c, mainMessage) ==
    [c EXCEPT !.binaryBuffer = BinaryBuffer(mainMessage.f, mainMessage)]

\* ToolSocket.routeMessage(message)
RouteMessage(c, message) ==
    IF message.kind = "text"
    THEN LET parsed == BundleFromString(message) IN
         IF parsed.threw
         THEN Dropped(c, message)
         ELSE IF parsed.bundle.message.f # JsNull
         THEN Announced(c, parsed.bundle.message)
         ELSE Validated(c, message, parsed.bundle, message.len)
    ELSE IF c.binaryBuffer.pending
    THEN LET pushed == Push(c.binaryBuffer, message) IN
         IF pushed.threw
         THEN [c EXCEPT !.thrown = TRUE]
         ELSE IF ~IsFull(pushed.buffer)
         THEN [c EXCEPT !.binaryBuffer = pushed.buffer]
         ELSE LET built == BundleFromBinaryBuffer(pushed.buffer) IN
              IF built.threw
              THEN Dropped([c EXCEPT !.binaryBuffer = pushed.buffer], message)
              ELSE Validated([c EXCEPT !.binaryBuffer = NoBuffer], message, built.bundle,
                             message.len)
    ELSE LET parsed == BundleFromBinary(message) IN
         IF parsed.threw
         THEN Dropped(c, message)
         ELSE Validated(c, message, parsed.bundle, message.len)

\* The socket's 'message' listener: the rawMessage event, then routeMessage
OnMessage(c, data) == RouteMessage(Emit(c, [type |-> "rawMessage", data |-> data]), data)

RECURSIVE SendQueuedLastFirst(_, _, _)
\* A faulty sendQueuedMessages that sends the newest message first: the
\* properties must tell it from sendQueuedMessages
SendQueuedLastFirst(c, queued, ids) ==
    IF queued = <<>> THEN c
    ELSE Send(SendQueuedLastFirst(c, Tail(queued), Tail(ids)),
              Head(queued).messageBundle, Head(queued).callback, Head(ids))

RECURSIVE SendQueued(_, _, _)
\* ToolSocket.sendQueuedMessages: the forEach; ids[k] is what generateUniqueId
\* gives for the k-th queued message
SendQueued(c, queued, ids) ==
    IF queued = <<>> THEN c
    ELSE SendQueued(Send(c, Head(queued).messageBundle, Head(queued).callback, Head(ids)),
                    Tail(queued), Tail(ids))

\* autoPing of setupPingInterval
AutoPing(c, call, id) ==
    SendMethod(c, call, "ping", JsStr("action/ping"), JsNull, PongCallback(call), NoBinary, id)

-----------------------------------------------------------------------------
(* The state machine: a client ToolSocket and the IncomingToolSocket the   *)
(* server makes for it, joined by one WebSocket.                           *)

ChunkA == Chunk("A", 3)
ChunkB == Chunk("B", 5)

\* What the applications call sendMethod with
AppCalls ==
    { [method |-> "post", route |-> JsStr("/"), body |-> JsStr("hello"),
       binaryData |-> NoBinary],
      [method |-> "get", route |-> JsStr("/x"), body |-> JsNull,
       binaryData |-> SingleBinary(ChunkA)] }

\* What the applications' listeners call ToolSocketResponse.send with
AppReplies ==
    { [body |-> JsStr("hi"), binaryData |-> NoBinary],
      [body |-> JsNull, binaryData |-> SingleBinary(ChunkB)],
      [body |-> JsUndefined, binaryData |-> NoBinary] }

\* new ToolSocketServer(options): no sockets, no pending parallel requests.
\* handles counts the promises requestParallelSocket has made; events is the
\* record of what the server was told and did.
NoRegistry == [sockets |-> <<>>, pendingParallelRequests |-> <<>>, handles |-> 0,
               events |-> <<>>]

\* The server's 'connection' handler, its own part: sockets.push(toolSocket)
\* and the 'connection' event
Tracked(reg, toolSocket) ==
    [reg EXCEPT !.sockets = Append(@, toolSocket),
                !.events = Append(@, [type |-> "connection", toolSocket |-> toolSocket])]

\* list.indexOf(x), counted from 1: 0 when x is not in the list
IndexOf(list, x) ==
    IF \E k \in DOMAIN list : list[k] = x
    THEN CHOOSE k \in DOMAIN list : list[k] = x /\ \A j \in 1..(k - 1) : list[j] # x
    ELSE 0

\* A faulty splice that always removes the first entry: the properties must
\* tell it from the splice of the close listener
SpliceFirst(list, x) == SubSeq(list, 2, Len(list))

\* sockets.splice(sockets.indexOf(toolSocket), 1): an index of -1 removes the
\* last entry
Splice(list, x) ==
    LET k == IF IndexOf(list, x) = 0 THEN Len(list) ELSE IndexOf(list, x)
    IN SubSeq(list, 1, k - 1) \o SubSeq(list, k + 1, Len(list))

\* The server's listener of a connection's 'confirmParallel' event
ConfirmParallel(reg, toolSocket, id) ==
    LET told == [reg EXCEPT !.events = Append(@, [type |-> "confirmParallel", id |-> id,
                                                   toolSocket |-> toolSocket])]
    IN IF id \in DOMAIN reg.pendingParallelRequests
       THEN [told EXCEPT !.events = Append(@, [type |-> "resolve",
                                               handle |-> reg.pendingParallelRequests[id],
                                               toolSocket |-> toolSocket]),
                         !.pendingParallelRequests = Remove(@, id)]
       ELSE told

\* The event is a 'confirmParallel' event of the connection: triggered by the
\* default meta listener, or by the default io listener for that route
IsConfirmParallel(event) ==
    \/ event.type = "confirmParallel"
    \/ event.type = "io" /\ event.route = JsStr("confirmParallel")

RECURSIVE Reported(_, _, _)
\* The server's listeners run for the events evs of the connection
Reported(reg, toolSocket, evs) ==
    IF evs = <<>> THEN reg
    ELSE Reported(IF IsConfirmParallel(Head(evs))
                  THEN ConfirmParallel(reg, toolSocket, Head(evs).body)
                  ELSE reg,
                  toolSocket, Tail(evs))

\* The connection e as a record
Load(e) ==
    [origin |-> Origin(e), readyState |-> readyState[e], networkId |-> networkId[e],
     responseCallbacks |-> responseCallbacks[e], queuedMessages |-> queuedMessages[e],
     binaryBuffer |-> binaryBuffer[e], responses |-> responses[e], events |-> events[e],
     thrown |-> thrown[e], eventCallbacks |-> eventCallbacks[e], out |-> <<>>]

\* The record c becomes the connection e; inbound is what is still in flight
\* towards e, and what e handed to its socket is in flight towards the peer
StoreConn(e, c, inbound) ==
    /\ readyState' = [readyState EXCEPT ![e] = c.readyState]
    /\ networkId' = [networkId EXCEPT ![e] = c.networkId]
    /\ responseCallbacks' = [responseCallbacks EXCEPT ![e] = c.responseCallbacks]
    /\ queuedMessages' = [queuedMessages EXCEPT ![e] = c.queuedMessages]
    /\ binaryBuffer' = [binaryBuffer EXCEPT ![e] = c.binaryBuffer]
    /\ responses' = [responses EXCEPT ![e] = c.responses]
    /\ events' = [events EXCEPT ![e] = c.events]
    /\ thrown' = [thrown EXCEPT ![e] = c.thrown]
    /\ eval' = eval
    /\ eventCallbacks' = [eventCallbacks EXCEPT ![e] = c.eventCallbacks]
    /\ wire' = [x \in DOMAIN wire |->
                   IF x = e THEN inbound
                   ELSE IF x = Peer(e) THEN wire[x] \o c.out ELSE wire[x]]

\* The same, with the server's listeners run for the events the call
\* triggered at a connection the server made
Store(e, c, inbound) ==
    /\ StoreConn(e, c, inbound)
    /\ registry' = IF e \in ServerSide
                   THEN Reported(registry, e,
                                 SubSeq(c.events, Len(events[e]) + 1, Len(c.events)))
                   ELSE registry

\* new ToolSocket(url, 'net1', 'client'): the state after the constructor.
\* connect calls configureSocket, whose autoPing is queued: the socket is
\* connecting.
ClientConstructed ==
    AutoPing([origin |-> Origin("client"), readyState |-> "CONNECTING",
              networkId |-> JsStr("net1"), responseCallbacks |-> <<>>,
              queuedMessages |-> <<>>, binaryBuffer |-> NoBuffer, responses |-> <<>>,
              events |-> <<>>, thrown |-> FALSE, eventCallbacks |-> NoListener,
              out |-> <<>>], 1, "idA")

InitBudget ==
    [sends |-> MaxSends, ticks |-> MaxTicks, replies |-> MaxReplies,
     inbound |-> MaxInbound, calls |-> 1]

\* The client's connection after its constructor, the server's not yet made
InitSockets ==
    /\ readyState = [e \in Conns |-> "CONNECTING"]
    /\ networkId = [e \in Conns |-> IF e = "client" THEN JsStr("net1") ELSE JsStr("toolbox")]
    /\ responseCallbacks = [e \in Conns |-> <<>>]
    /\ queuedMessages = [e \in Conns |->
                            IF e = "client" THEN ClientConstructed.queuedMessages ELSE <<>>]
    /\ binaryBuffer = [e \in Conns |-> NoBuffer]
    /\ pingTimer = [e \in Conns |-> e = "client"]
    /\ wire = [e \in Conns |-> <<>>]
    /\ responses = [e \in Conns |-> <<>>]
    /\ events = [e \in Conns |-> <<>>]
    /\ thrown = [e \in Conns |-> FALSE]
    /\ registry = NoRegistry
    /\ budget = InitBudget

InitConns == InitSockets /\ eventCallbacks = NoListeners

Init == InitConns /\ eval = NoEval

\* The variables of the connections
conns == <<readyState, networkId, responseCallbacks, queuedMessages, binaryBuffer,
           pingTimer, wire, responses, events, thrown, registry, budget, eventCallbacks>>

\* The connection object of e exists
Constructed(e) == e = "client" \/ pingTimer[e] \/ readyState[e] # "CONNECTING"

\* The server's 'connection' handler: new IncomingToolSocket(socket, server) on
\* an open socket; configureSocket sends the first keepalive ping
AcceptAt(e) ==
    /\ ~Constructed(e)
    /\ \E id \in generateUniqueId :
          StoreConn(e,
                    AutoPing([Load(e) EXCEPT !.readyState = "OPEN",
                                             !.networkId = JsStr("toolbox")],
                             budget.calls + 1, id),
                    wire[e])
    /\ registry' = Tracked(registry, e)
    /\ pingTimer' = [pingTimer EXCEPT ![e] = TRUE]
    /\ budget' = [budget EXCEPT !.calls = @ + 1]

Accept == AcceptAt("server")

\* The socket's 'open' event at the client: the four events, then
\* sendQueuedMessages
SocketOpen ==
    /\ readyState["client"] = "CONNECTING"
    /\ Constructed("server")
    /\ \E ids \in [1..Len(queuedMessages["client"]) -> generateUniqueId] :
          LET c0 == [Load("client") EXCEPT !.readyState = "OPEN"]
              c1 == Emit(Emit(Emit(Emit(c0, [type |-> "open"]), [type |-> "connect"]),
                              [type |-> "connected"]), [type |-> "status"])
              c2 == SendQueued(c1, c1.queuedMessages, ids)
          IN Store("client", [c2 EXCEPT !.queuedMessages = <<>>], wire["client"])
    /\ UNCHANGED <<pingTimer, budget>>

\* The application calls one of the verb helpers, with or without a callback
AppSend(e) ==
    /\ Constructed(e)
    /\ budget.sends > 0
    /\ \E call \in AppCalls, hasCallback \in BOOLEAN, id \in generateUniqueId :
          Store(e,
                SendMethod(Load(e), budget.calls + 1, call.method, call.route, call.body,
                           IF hasCallback THEN AppCallback(budget.calls + 1) ELSE NoCallback,
                           call.binaryData, id),
                wire[e])
    /\ budget' = [budget EXCEPT !.sends = @ - 1, !.calls = @ + 1]
    /\ UNCHANGED pingTimer

\* The socket's 'message' event: routeMessage on the next frame in flight
Deliver(e) ==
    /\ readyState[e] \in {"OPEN", "CLOSING"}
    /\ wire[e] # <<>>
    /\ Store(e, OnMessage(Load(e), Head(wire[e])), Tail(wire[e]))
    /\ UNCHANGED <<pingTimer, budget>>

\* A listener of the application calls send on a response object it was given
AppReply(e) ==
    /\ budget.replies > 0
    /\ \E h \in DOMAIN responses[e], reply \in AppReplies :
          Store(e, ResponseSend(Load(e), h, reply.body, reply.binaryData), wire[e])
    /\ budget' = [budget EXCEPT !.replies = @ - 1]
    /\ UNCHANGED pingTimer

\* The interval of setupPingInterval fires
Tick(e) ==
    /\ pingTimer[e]
    /\ budget.ticks > 0
    /\ \E id \in generateUniqueId :
          Store(e, AutoPing(Load(e), budget.calls + 1, id), wire[e])
    /\ budget' = [budget EXCEPT !.ticks = @ - 1, !.calls = @ + 1]
    /\ UNCHANGED pingTimer

\* ToolSocket.close(): socket.close() starts the closing handshake
Close(e) ==
    /\ Constructed(e)
    /\ readyState[e] \in {"CONNECTING", "OPEN"}
    /\ readyState' = [readyState EXCEPT ![e] = "CLOSING"]
    /\ UNCHANGED <<networkId, responseCallbacks, queuedMessages, binaryBuffer, pingTimer,
                   wire, responses, events, thrown, registry, budget, eval,
                   eventCallbacks>>

\* A faulty clearInterval that leaves the timer armed: the properties must
\* tell it from clearInterval
ClearIntervalNever(timers, e) == timers

\* clearInterval(interval) of the connection e
ClearInterval(timers, e) == [timers EXCEPT ![e] = FALSE]

\* A faulty listener of the socket's 'close' event that forgets the pending
\* callbacks and the reassembly buffer: the properties must tell it from the
\* listener of configureSocket
OnClosePurging(c) ==
    Emit(Emit(Emit([c EXCEPT !.responseCallbacks = <<>>, !.binaryBuffer = NoBuffer],
                   [type |-> "close"]), [type |-> "disconnect"]), [type |-> "status"])

\* The listener configureSocket adds to the socket's 'close' event
OnClose(c) ==
    Emit(Emit(Emit(c, [type |-> "close"]), [type |-> "disconnect"]), [type |-> "status"])

\* The socket's 'close' event: the three events and clearInterval.  The socket
\* closes once one of the two ends has closed it.
SocketClose(e) ==
    /\ Constructed(e)
    /\ readyState[e] # "CLOSED"
    /\ readyState[e] = "CLOSING" \/ readyState[Peer(e)] \in {"CLOSING", "CLOSED"}
    /\ StoreConn(e, OnClose([Load(e) EXCEPT !.readyState = "CLOSED"]), wire[e])
    /\ registry' = IF e \in ServerSide
                   THEN [registry EXCEPT !.sockets = Splice(@, e)]
                   ELSE registry
    /\ pingTimer' = ClearInterval(pingTimer, e)
    /\ UNCHANGED budget

Next ==
    \/ Accept
    \/ SocketOpen
    \/ \E e \in Conns : AppSend(e)
    \/ \E e \in Conns : Deliver(e)
    \/ \E e \in Conns : AppReply(e)
    \/ \E e \in Conns : Close(e)
    \/ \E e \in Conns : SocketClose(e)

Spec == Init /\ [][Next]_vars

-----------------------------------------------------------------------------
(* The receive path alone: the server's connection, open, and a peer that  *)
(* may hand it any frame.                                                  *)

\* The JSON text of an envelope a peer writes by hand
Envelope(origin, method, route, body, id, frameCount) ==
    Stringify([ToolSocketMessage(JsStr(origin), JsStr("net1"), JsStr(method), JsStr(route),
                                 body, id) EXCEPT !.f = frameCount])

ChunkBig == Chunk("big", MAX_MESSAGE_SIZE - 100)
ChunkHuge == Chunk("huge", MAX_MESSAGE_SIZE + 1)

\* Control envelopes: an announcement of frames to follow
Control(frameCount) == Envelope("client", "action", "/", JsStr("hello"), JsUndefined, frameCount)
ControlInvalid == Envelope("bogus", "action", "/", JsStr("hello"), JsUndefined, JsNum(2))

InboundFrames ==
    { Envelope("client", "post", "/", JsStr("hello"), JsUndefined, JsNull),
      Envelope("client", "post", "/", JsStr("hello"), JsStr("idC"), JsNull),
      Envelope("client", "post", "/", JsStr(HugeString), JsUndefined, JsNull),
      Control(JsNum(1)), Control(JsNum(2)), Control(JsNum(0)), Control(JsNum(0 - 1)),
      Control(JsStr("abc")), Control(JsNum(100)), ControlInvalid,
      RawFrame(ChunkA), RawFrame(ChunkBig), RawFrame(ChunkHuge),
      ToBinary(MessageBundle(ToolSocketMessage(JsStr("client"), JsStr("net1"), JsStr("get"),
                                               JsStr("/x"), JsNull, JsUndefined),
                             SingleBinary(ChunkA))),
      Garbage }

\* The frames of a peer that makes requests and answers them
RequestFrames ==
    { Envelope("client", "post", "/", JsStr("hello"), JsStr("idC"), JsNull),
      Envelope("client", "ping", "action/ping", JsNull, JsStr("idA"), JsNull),
      Envelope("client", "res", "action/ping", JsStr("pong"), JsStr("idA"), JsNull),
      Envelope("client", "res", "/", JsStr("hi"), JsStr("idB"), JsNull),
      Envelope("client", "res", "/", JsStr("hi"), JsStr("__proto__"), JsNull) }

\* The state after the server's 'connection' handler: the connection is open
\* and its first keepalive ping, with the id it was given, is on its way
InitServer(inbound, sends, replies) ==
    \E id \in generateUniqueId :
       LET c == AutoPing([origin |-> Origin("server"), readyState |-> "OPEN",
                          networkId |-> JsStr("toolbox"), responseCallbacks |-> <<>>,
                          queuedMessages |-> <<>>, binaryBuffer |-> NoBuffer,
                          responses |-> <<>>, events |-> <<>>, thrown |-> FALSE,
                          eventCallbacks |-> NoListener, out |-> <<>>], 1, id)
       IN /\ readyState = [e \in Conns |-> "OPEN"]
          /\ networkId = [e \in Conns |-> IF e = "client" THEN JsStr("net1") ELSE c.networkId]
          /\ responseCallbacks = [e \in Conns |->
                                     IF e = "client" THEN <<>> ELSE c.responseCallbacks]
          /\ queuedMessages = [e \in Conns |-> <<>>]
          /\ binaryBuffer = [e \in Conns |-> NoBuffer]
          /\ pingTimer = [e \in Conns |-> TRUE]
          /\ wire = [e \in Conns |-> IF e = "client" THEN c.out ELSE <<>>]
          /\ responses = [e \in Conns |-> <<>>]
          /\ events = [e \in Conns |-> IF e = "client" THEN <<>> ELSE c.events]
          /\ thrown = [e \in Conns |-> FALSE]
          /\ registry = Tracked(NoRegistry, "server")
          /\ budget = [sends |-> sends, ticks |-> 0, replies |-> replies,
                       inbound |-> inbound, calls |-> 1]
          /\ eval = NoEval
          /\ eventCallbacks = NoListeners

\* The socket's 'message' event with a frame the peer chose
InjectAt(e, frames) ==
    /\ budget.inbound > 0
    /\ readyState[e] \in {"OPEN", "CLOSING"}
    /\ \E frame \in frames :
          Store(e, OnMessage(Load(e), frame), wire[e])
    /\ budget' = [budget EXCEPT !.inbound = @ - 1]
    /\ UNCHANGED pingTimer

Inject(frames) == InjectAt("server", frames)

InitRecv == InitServer(MaxInbound, 0, 0)
NextRecv == Inject(InboundFrames)
SpecRecv == InitRecv /\ [][NextRecv]_vars

\* frames a requesting peer hands to the server's connection
MaxRequestFrames == 2
\* calls of ToolSocketResponse.send made by the server's listeners
MaxServerReplies == 2

InitReply == InitServer(MaxRequestFrames, MaxSends, MaxServerReplies)
NextReply ==
    \/ Inject(RequestFrames)
    \/ AppSend("server")
    \/ AppReply("server")
SpecReply == InitReply /\ [][NextReply]_vars

-----------------------------------------------------------------------------
(* Transfers of several frames: both connections open and idle, the        *)
(* client's application sends bundles whose binary data is a list.         *)

\* The largest frameCount MESSAGE_BUNDLE_SCHEMA accepts
FrameCountMax == 99

\* The k-th frame of a list: k bytes
Frame(k) == Chunk("frame", k)
Frames(n) == ArrayBinary([k \in 1..n |-> Frame(k)])

\* The lengths of the lists the application sends
FrameCounts == {0, 1, 2, FrameCountMax, FrameCountMax + 1}

\* transfers the client's application starts
MaxTransfers == 2

InitFrames ==
    /\ eval = NoEval
    /\ eventCallbacks = NoListeners
    /\ readyState = [e \in Conns |-> "OPEN"]
    /\ networkId = [e \in Conns |-> JsStr("net1")]
    /\ responseCallbacks = [e \in Conns |-> <<>>]
    /\ queuedMessages = [e \in Conns |-> <<>>]
    /\ binaryBuffer = [e \in Conns |-> NoBuffer]
    /\ pingTimer = [e \in Conns |-> TRUE]
    /\ wire = [e \in Conns |-> <<>>]
    /\ responses = [e \in Conns |-> <<>>]
    /\ events = [e \in Conns |-> <<>>]
    /\ thrown = [e \in Conns |-> FALSE]
    /\ registry = Tracked(NoRegistry, "server")
    /\ budget = [sends |-> MaxTransfers, ticks |-> 0, replies |-> 0, inbound |-> 0,
                 calls |-> 0]

\* The client's application sends a list of n frames with one of two verbs
FrameSend ==
    /\ budget.sends > 0
    /\ \E n \in FrameCounts, method \in {"action", "post"} :
          Store("client",
                SendMethod(Load("client"), budget.calls + 1, method, JsStr("/x"),
                           JsStr("hello"), NoCallback, Frames(n), ""),
                wire["client"])
    /\ budget' = [budget EXCEPT !.sends = @ - 1, !.calls = @ + 1]
    /\ UNCHANGED pingTimer

NextFrames ==
    \/ FrameSend
    \/ Deliver("server")
SpecFrames == InitFrames /\ [][NextFrames]_vars

-----------------------------------------------------------------------------
(* The keepalive alone: the two connections with their interval timers and *)
(* no application.                                                         *)

NextKeepalive ==
    \/ Accept
    \/ SocketOpen
    \/ \E e \in Conns : Tick(e)
    \/ \E e \in Conns : Deliver(e)
    \/ \E e \in Conns : Close(e)
    \/ \E e \in Conns : SocketClose(e)
SpecKeepalive == Init /\ [][NextKeepalive]_vars

-----------------------------------------------------------------------------
(* Messages the receive path drops: the server's connection, open, and a   *)
(* peer that hands it texts that are no envelope and envelopes the schema  *)
(* rejects, as text, as one binary message and as a transfer of frames.    *)

\* The JSON text of an envelope of a post with the given fields
PostText(origin, network, method, route, body, id) ==
    Stringify(ToolSocketMessage(origin, network, method, route, body, id))

\* An envelope the schema rejects, sent as one binary message with a payload
BinaryInvalid ==
    ToBinary(MessageBundle(ToolSocketMessage(JsStr("bogus"), JsStr("net1"), JsStr("get"),
                                             JsStr("/x"), JsNull, JsUndefined),
                           SingleBinary(ChunkA)))

\* An envelope the schema rejects that announces one frame
ControlInvalidOne == Envelope("bogus", "action", "/", JsStr("hello"), JsUndefined, JsNum(1))

DropFrames ==
    { Garbage,
      \* no body: JSON.stringify leaves the key out
      PostText(JsStr("client"), JsStr("net1"), JsStr("post"), JsStr("/"), JsUndefined,
               JsUndefined),
      \* no origin
      PostText(JsUndefined, JsStr("net1"), JsStr("post"), JsStr("/"), JsStr("hello"),
               JsUndefined),
      PostText(JsStr("client"), JsStr("net1"), JsStr("post"), JsStr("/"), JsStr("hello"),
               JsUndefined),
      PostText(JsStr("bogus"), JsStr("net1"), JsStr("post"), JsStr("/"), JsStr("hello"),
               JsUndefined),
      PostText(JsStr("client"), JsStr("net1"), JsStr("bogus"), JsStr("/"), JsStr("hello"),
               JsUndefined),
      PostText(JsStr("client"), JsStr("a b"), JsStr("post"), JsStr("/"), JsStr("hello"),
               JsUndefined),
      PostText(JsStr("client"), JsStr("net1"), JsStr("post"), JsStr("a b"), JsStr("hello"),
               JsUndefined),
      PostText(JsStr("client"), JsStr("net1"), JsStr("post"), JsStr("/"), JsStr("hello"),
               JsNum(7)),
      PostText(JsStr("client"), JsStr("net1"), JsStr("post"), JsStr("/"),
               JsStr(HugeString), JsUndefined),
      BinaryInvalid, ControlInvalidOne, Control(JsNum(2)), RawFrame(ChunkA) }

\* frames the peer hands to the server's connection
MaxDropFrames == 4

InitDrop == InitServer(MaxDropFrames, 0, 0)
NextDrop == Inject(DropFrames)
SpecDrop == InitDrop /\ [][NextDrop]_vars

-----------------------------------------------------------------------------
(* The default routes: the server's connection, open, and a peer that      *)
(* sends pings, meta messages and io messages.                             *)

\* The text a peer's ping(route, body, callback) puts on the wire: with the id
\* of its callback, or with none
PingText(network, id) ==
    Stringify(ToolSocketMessage(JsStr("client"), JsStr(network), JsStr("ping"),
                                JsStr("action/ping"), JsNull, id))

\* The text a peer's meta(route, body) puts on the wire
MetaText(route, body) ==
    Stringify(ToolSocketMessage(JsStr("client"), JsStr("net1"), JsStr("meta"), JsStr(route),
                                body, JsUndefined))

\* The text a peer's emit(route, body) puts on the wire
IoText(route, body) ==
    Stringify(ToolSocketMessage(JsStr("client"), JsStr("net1"), JsStr("io"), JsStr(route),
                                body, JsUndefined))

RouteFrames ==
    { PingText("net1", JsStr("idC")), PingText("toolbox", JsStr("idC")),
      PingText("net2", JsStr("idC")), PingText("net2", JsUndefined),
      MetaText("requestParallel", JsStr("idA")), MetaText("confirmParallel", JsStr("idA")),
      MetaText("/x", JsStr("idA")),
      IoText("/x", JsStr("hello")), IoText("ping", JsStr("hello")) }

\* frames the peer hands to the server's connection
MaxRouteFrames == 3

InitRoutes == InitServer(MaxRouteFrames, 0, 0)
NextRoutes == Inject(RouteFrames)
SpecRoutes == InitRoutes /\ [][NextRoutes]_vars

-----------------------------------------------------------------------------
(* The ToolSocketServer and two transports whose client ends do not act.   *)
(* First the server accepts the transports, the application asks for       *)
(* parallel sockets and the connections close; then, with both connections *)
(* accepted, the application asks and the peers send confirmations.        *)

RegConns == Conns \cup {"parallel", "incoming"}

\* calls of requestParallelSocket
MaxParallelRequests == 2
\* frames the peers hand to the server's connections
MaxConfirmFrames == 3

InitRegistry ==
    /\ eval = NoEval
    /\ eventCallbacks = NoListeners
    /\ readyState = [e \in RegConns |-> IF e \in ServerSide THEN "CONNECTING" ELSE "OPEN"]
    /\ networkId = [e \in RegConns |-> IF e \in ServerSide THEN JsStr("toolbox") ELSE JsStr("net1")]
    /\ responseCallbacks = [e \in RegConns |-> <<>>]
    /\ queuedMessages = [e \in RegConns |-> <<>>]
    /\ binaryBuffer = [e \in RegConns |-> NoBuffer]
    /\ pingTimer = [e \in RegConns |-> FALSE]
    /\ wire = [e \in RegConns |-> <<>>]
    /\ responses = [e \in RegConns |-> <<>>]
    /\ events = [e \in RegConns |-> <<>>]
    /\ thrown = [e \in RegConns |-> FALSE]
    /\ registry = NoRegistry
    /\ budget = [sends |-> MaxParallelRequests, ticks |-> 0, replies |-> 0,
                 inbound |-> 0, calls |-> 0]

\* ToolSocketServer.requestParallelSocket, its own part: the promise and the
\* entry of pendingParallelRequests
RequestParallelSocket(reg, toolSocket, id) ==
    [reg EXCEPT !.handles = @ + 1,
                !.pendingParallelRequests = Put(@, JsStr(id), reg.handles + 1),
                !.events = Append(@, [type |-> "request", handle |-> reg.handles + 1,
                                      id |-> JsStr(id), source |-> toolSocket])]

\* The application calls requestParallelSocket(toolSocket) for a connection
\* the server made
RequestParallel(e) ==
    /\ e \in ServerSide
    /\ Constructed(e)
    /\ budget.sends > 0
    /\ \E id \in generateUniqueId :
          /\ StoreConn(e,
                       SendMethod(Load(e), budget.calls + 1, "meta",
                                  JsStr("requestParallel"), JsStr(id), NoCallback,
                                  NoBinary, ""),
                       wire[e])
          /\ registry' = RequestParallelSocket(registry, e, id)
    /\ budget' = [budget EXCEPT !.sends = @ - 1, !.calls = @ + 1]
    /\ UNCHANGED pingTimer

\* What the peers send to confirm: a meta message, and an io message whose
\* route names the event
ConfirmFrames ==
    { MetaText("confirmParallel", JsStr("idA")),
      IoText("confirmParallel", JsStr("idA")), IoText("confirmParallel", JsStr("idB")) }

NextRegistry ==
    \/ \E e \in ServerSide : AcceptAt(e)
    \/ \E e \in ServerSide : RequestParallel(e)
    \/ \E e \in ServerSide : Close(e)
    \/ \E e \in ServerSide : SocketClose(e)
SpecRegistry == InitRegistry /\ [][NextRegistry]_vars

\* Both transports accepted, their connections open and idle
InitParallel ==
    /\ eval = NoEval
    /\ eventCallbacks = NoListeners
    /\ readyState = [e \in RegConns |-> "OPEN"]
    /\ networkId = [e \in RegConns |-> IF e \in ServerSide THEN JsStr("toolbox") ELSE JsStr("net1")]
    /\ responseCallbacks = [e \in RegConns |-> <<>>]
    /\ queuedMessages = [e \in RegConns |-> <<>>]
    /\ binaryBuffer = [e \in RegConns |-> NoBuffer]
    /\ pingTimer = [e \in RegConns |-> TRUE]
    /\ wire = [e \in RegConns |-> <<>>]
    /\ responses = [e \in RegConns |-> <<>>]
    /\ events = [e \in RegConns |-> <<>>]
    /\ thrown = [e \in RegConns |-> FALSE]
    /\ registry = Tracked(Tracked(NoRegistry, "server"), "incoming")
    /\ budget = [sends |-> MaxParallelRequests, ticks |-> 0, replies |-> 0,
                 inbound |-> MaxConfirmFrames, calls |-> 0]

NextParallel ==
    \/ \E e \in ServerSide : RequestParallel(e)
    \/ \E e \in ServerSide : InjectAt(e, ConfirmFrames)
SpecParallel == InitParallel /\ [][NextParallel]_vars

-----------------------------------------------------------------------------
(* Properties.  Helpers first: what a step added to a connection's record  *)
(* of events, and the wire size of a bundle.                               *)

\* The events the step added at e
NewEvents(e) == SubSeq(events'[e], Len(events[e]) + 1, Len(events'[e]))

\* The positions of the events of one type in a sequence of events
Of(evs, type) == {k \in DOMAIN evs : evs[k].type = type}

\* The frame the step received at e: every receipt starts with rawMessage
Received(e) == NewEvents(e) # <<>> /\ NewEvents(e)[1].type = "rawMessage"

RECURSIVE SumChunks(_)
SumChunks(chunks) == IF chunks = <<>> THEN 0 ELSE Head(chunks).len + SumChunks(Tail(chunks))

\* The bytes a bundle takes on the wire: the envelope's text, the four bytes of
\* the length prefix of a single binary message, and every byte of payload
WireSize(bundle) ==
    Stringify(bundle.message).len
    + (IF bundle.binaryData.kind = "single" THEN 4 ELSE 0)
    + SumChunks(bundle.binaryData.items)

\* A frameCount the schema accepts
ValidFrameCount(length) == length.t = "number" /\ length.n >= 1 /\ length.n <= FrameCountMax

\* C8 as stated: after a control envelope announcing N frames no listener is
\* dispatched while fewer than N frames have arrived; the N-th frame causes
\* exactly one dispatch and resets the pending buffer to null.
C8_Stated ==
    [][\A e \in Conns :
         LET buffer == binaryBuffer[e]
             dispatched == Of(NewEvents(e), "dispatch")
         IN (/\ buffer.pending /\ buffer.length.t = "number" /\ buffer.length.n >= 1
             /\ Received(e) /\ NewEvents(e)[1].data.kind = "binary")
            => IF Len(buffer.messageBuffer) + 1 < buffer.length.n
               THEN dispatched = {} /\ binaryBuffer'[e].pending
               ELSE Cardinality(dispatched) = 1 /\ ~binaryBuffer'[e].pending]_vars

\* C8, corrected: while fewer than N frames have arrived nothing is dispatched
\* and the buffer stays pending with the frame added; the N-th frame resets the
\* buffer to null and ends in exactly one of two ways: one dispatch of the
\* reassembled message (the control envelope's route and body, the N frames in
\* order), or droppedMessage and no dispatch.  It is dispatched when the
\* control envelope passes the schema and the whole transfer is within the
\* maximum message size; it is dropped when the control envelope fails the
\* schema or the N-th frame alone exceeds the maximum message size.
C8_Reassembly ==
    [][\A e \in Conns :
         LET buffer == binaryBuffer[e]
             new == NewEvents(e)
             dispatched == Of(new, "dispatch")
             dropped == Of(new, "droppedMessage")
             frame == new[1].data
             valid == SchemaValidate(MESSAGE_BUNDLE_SCHEMA, buffer.mainMessage)
             total == Stringify(buffer.mainMessage).len
                      + SumChunks(Append(buffer.messageBuffer, frame))
         IN (/\ buffer.pending /\ buffer.length.t = "number" /\ buffer.length.n >= 1
             /\ Received(e) /\ frame.kind = "binary")
            => IF Len(buffer.messageBuffer) + 1 < buffer.length.n
               THEN /\ dispatched = {}
                    /\ binaryBuffer'[e] =
                          [buffer EXCEPT !.messageBuffer = Append(@, frame)]
               ELSE /\ ~binaryBuffer'[e].pending
                    /\ Cardinality(dispatched) + Cardinality(dropped) = 1
                    /\ (valid /\ total <= MAX_MESSAGE_SIZE) => dropped = {}
                    /\ (~valid \/ frame.len > MAX_MESSAGE_SIZE) => dispatched = {}
                    /\ \A k \in dispatched :
                          /\ new[k].route = buffer.mainMessage.r
                          /\ new[k].body = buffer.mainMessage.b
                          /\ new[k].binaryData =
                                ArrayBinary([j \in 1..buffer.length.n |->
                                    Append(buffer.messageBuffer, frame)[j].whole])]_vars

\* A transfer of two frames has been reassembled and dispatched, and no buffer
\* is pending
C8_Witness ==
    /\ ~binaryBuffer["server"].pending
    /\ \E k \in Of(events["server"], "dispatch") :
          events["server"][k].binaryData = ArrayBinary(<<ChunkA, ChunkBig>>)

\* C9 as stated: a pending reassembly buffer has a target frame count that is
\* a positive integer in the schema's range.
C9_Stated ==
    \A e \in Conns : binaryBuffer[e].pending => ValidFrameCount(binaryBuffer[e].length)

\* C10 as stated: no listener is invoked for a message whose total wire size,
\* summed over the control envelope and all its frames, exceeds the maximum
\* message size.
C10_Stated ==
    \A e \in Conns : \A k \in Of(events[e], "dispatch") :
       WireSize(events[e][k].bundle) <= MAX_MESSAGE_SIZE

\* The positions of the dispatches of res envelopes in a sequence of events
ResDispatches(evs) == {k \in Of(evs, "dispatch") : evs[k].method = "res"}

\* The id is registered in the pending-response map of e
Registered(e, id) == Truthy(id) /\ id.t = "string" /\ id.s \in DOMAIN responseCallbacks[e]

\* What the arrival of a res envelope does, and that nothing else calls back
C2_ResStep ==
    \A e \in Conns :
       LET new == NewEvents(e)
           invoked == Of(new, "callback")
       IN /\ ResDispatches(new) = {} => invoked = {}
          /\ \A k \in ResDispatches(new) :
                LET id == new[k].bundle.message.i IN
                IF Registered(e, id)
                THEN /\ Cardinality(invoked) = 1
                     /\ \A j \in invoked :
                           /\ new[j].callback = responseCallbacks[e][id.s]
                           /\ new[j].body = new[k].body
                           /\ new[j].binaryData = new[k].binaryData
                     /\ responseCallbacks'[e] = Remove(responseCallbacks[e], id.s)
                ELSE /\ invoked = {}
                     /\ responseCallbacks'[e] = responseCallbacks[e]

\* No callback has been invoked twice
C2_AtMostOnce ==
    \A e \in Conns : \A j, k \in Of(events[e], "callback") :
       events[e][j].callback = events[e][k].callback => j = k

\* An id still in the map belongs to a request no res has answered: no res
\* with that id was dispatched after the id was last registered
C2_Unanswered ==
    \A e \in Conns : \A id \in DOMAIN responseCallbacks[e] :
       \E k \in Of(events[e], "send") :
          /\ events[e][k].callback.kind # "none"
          /\ events[e][k].bundle.message.i = JsStr(id)
          /\ \A j \in ResDispatches(events[e]) :
                j > k => events[e][j].bundle.message.i # JsStr(id)

\* C2: every callback of the pending-response map is invoked at most once; a
\* res envelope with a registered id invokes that callback with the body and
\* the binary payload and removes the entry; a res with an id that is not
\* registered (never, or no longer) invokes nothing and leaves the map as it
\* is; and once every request sent with a callback is answered the map is
\* empty.
C2_Callbacks == [](C2_AtMostOnce /\ C2_Unanswered) /\ [][C2_ResStep]_vars

\* Two res envelopes with one id were dispatched: the first invoked the
\* callback registered under it, the second found the map empty
C2_Witness ==
    /\ responseCallbacks["server"] = <<>>
    /\ \E j, k \in ResDispatches(events["server"]) :
          /\ j < k
          /\ events["server"][j].bundle.message.i = events["server"][k].bundle.message.i
          /\ events["server"][j + 1].type = "callback"
          /\ k = Len(events["server"])

\* The res envelopes e has handed to its send path: sent or queued
ResHanded(e) ==
    Cardinality({k \in Of(events[e], "send") : events[e][k].bundle.message.m = JsStr("res")})
    + Cardinality({k \in DOMAIN queuedMessages[e] :
                      queuedMessages[e][k].messageBundle.message.m = JsStr("res")})

\* The response objects of e that have sent
Sent(e) == {h \in DOMAIN responses[e] : responses[e][h].sent}

\* The bundles the step handed to the send path of e: sent, or queued
Handed(e) ==
    [k \in 1..Cardinality(Of(NewEvents(e), "send")) |->
        NewEvents(e)[CHOOSE j \in Of(NewEvents(e), "send") :
                        Cardinality({i \in Of(NewEvents(e), "send") : i <= j}) = k].bundle]
    \o [k \in 1..(Len(queuedMessages'[e]) - Len(queuedMessages[e])) |->
          queuedMessages'[e][Len(queuedMessages[e]) + k].messageBundle]

\* A call of send on a response object: the first on that object hands one res
\* envelope with the request's id and route to the send path, any other
\* changes nothing
C3_SendStep ==
    budget'.replies < budget.replies =>
       \/ UNCHANGED <<readyState, networkId, responseCallbacks, queuedMessages,
                      binaryBuffer, pingTimer, wire, responses, events, thrown, registry>>
       \/ \E e \in Conns : \E h \in DOMAIN responses[e] \ Sent(e) :
             /\ responses'[e] = [responses[e] EXCEPT ![h].sent = TRUE]
             /\ Len(Handed(e)) = 1
             /\ Handed(e)[1].message.m = JsStr("res")
             /\ Handed(e)[1].message.i = responses[e][h].originalMessage.i
             /\ Handed(e)[1].message.r = responses[e][h].originalMessage.r

\* C3: whatever number of send calls are made on the response objects, each
\* object hands at most one res envelope to the send path (the envelopes
\* handed over are as many as the objects that have sent), and a call on an
\* object that has sent sends nothing and changes no state.
C3_OneReply ==
    [](\A e \in Conns : ResHanded(e) = Cardinality(Sent(e))) /\ [][C3_SendStep]_vars

\* Two calls of send were made on the one response object there is, and one
\* res envelope was sent
C3_Witness ==
    /\ Len(responses["server"]) = 1
    /\ responses["server"][1].sent
    /\ budget.replies + 2 <= MaxServerReplies
    /\ ResHanded("server") = 1

\* The 'send' events of the peer of e that sent what the dispatch d at e got:
\* the request of the same call, or the reply to it
Senders(e, d) ==
    {j \in Of(events[Peer(e)], "send") :
        /\ events[Peer(e)][j].bundle.message.q = d.q
        /\ events[Peer(e)][j].bundle.message.m = JsStr(d.method)}

NewSends(e) ==
    [k \in 1..Cardinality(Of(NewEvents(e), "send")) |->
        NewEvents(e)[CHOOSE j \in Of(NewEvents(e), "send") :
                        Cardinality({i \in Of(NewEvents(e), "send") : i <= j}) = k]]

\* What send hands to the socket for a bundle whose binary data is no list
Encoded(bundle) ==
    IF bundle.binaryData.kind = "single" THEN ToBinary(bundle) ELSE Stringify(bundle.message)

\* A step of a connection that is not open before and after transmits nothing
\* and only appends to the queue; the step of the socket's open event
\* transmits the queued messages, each once, in the order of the queue, with
\* their callbacks, and empties the queue
C5_Step ==
    \A e \in Conns :
       /\ (readyState[e] # "OPEN" /\ readyState'[e] # "OPEN") =>
             /\ Of(NewEvents(e), "rawSend") = {} /\ Of(NewEvents(e), "send") = {}
             /\ Len(wire'[Peer(e)]) <= Len(wire[Peer(e)])
             /\ Len(queuedMessages'[e]) >= Len(queuedMessages[e])
             /\ SubSeq(queuedMessages'[e], 1, Len(queuedMessages[e])) = queuedMessages[e]
             /\ budget'.sends < budget.sends /\ events'[Peer(e)] = events[Peer(e)]
                /\ queuedMessages'[Peer(e)] = queuedMessages[Peer(e)]
                /\ wire'[e] = wire[e]
                => Len(queuedMessages'[e]) = Len(queuedMessages[e]) + 1
       /\ (NewEvents(e) # <<>> /\ NewEvents(e)[1].type = "open") =>
             /\ readyState[e] # "OPEN" /\ readyState'[e] = "OPEN"
             /\ queuedMessages'[e] = <<>>
             /\ Len(NewSends(e)) = Len(queuedMessages[e])
             /\ \A k \in DOMAIN queuedMessages[e] :
                   LET queued == queuedMessages[e][k]
                       sent == NewSends(e)[k]
                   IN /\ sent.callback = queued.callback
                      /\ sent.bundle.binaryData = queued.messageBundle.binaryData
                      /\ [sent.bundle.message EXCEPT !.i = JsUndefined] =
                            [queued.messageBundle.message EXCEPT !.i = JsUndefined]
                      /\ queued.messageBundle.binaryData.kind # "array"
             /\ wire'[Peer(e)] =
                   wire[Peer(e)] \o [k \in DOMAIN queuedMessages[e] |->
                                        Encoded(NewSends(e)[k].bundle)]

\* C5: messages passed to send while the transport is not open are not
\* transmitted but appended to the queue; when the open event fires exactly
\* the queued messages are transmitted, each once, in the order they were
\* queued, and the queue is empty afterwards.
C5_Queue == [][C5_Step]_vars

\* The client has opened and flushed two messages: its first keepalive ping and
\* a later call, in that order
C5_Witness ==
    /\ readyState["client"] = "OPEN"
    /\ queuedMessages["client"] = <<>>
    /\ Len(events["client"]) >= 8
    /\ events["client"][1].type = "open"
    /\ events["client"][6].type = "send"
    /\ events["client"][8].type = "send"
    /\ events["client"][6].bundle.message.q < events["client"][8].bundle.message.q

\* C1 as stated: the callback of a request is invoked with exactly the body
\* (and binary payload) that the peer's listener replied through the response
\* object of that request.
C1_Stated ==
    \A e \in Conns : \A k \in Of(events[e], "callback") :
       events[e][k].callback.kind = "app" =>
          \E j \in Of(events[Peer(e)], "send") :
             /\ events[Peer(e)][j].bundle.message.m = JsStr("res")
             /\ events[Peer(e)][j].bundle.message.q = events[e][k].callback.req
             /\ events[Peer(e)][j].bundle.message.b = events[e][k].body
             /\ events[Peer(e)][j].bundle.binaryData = events[e][k].binaryData

\* The dispatches at e of the envelope of call q
DispatchesOf(e, q) == {j \in Of(events[e], "dispatch") : events[e][j].q = q}

\* The transport sends e made before its k-th event
SentBefore(e, k) == Cardinality({j \in Of(events[e], "rawSend") : j < k})

\* What C6 says of the transfers of e whose number of frames is in counts: a
\* transfer is dispatched at the peer at most once, with the sender's route
\* and body and the frames in the order of the list, and it is dispatched
\* once the peer has received every frame of it
Transferred(e, counts) ==
    \A k \in Of(events[e], "send") :
       LET bundle == events[e][k].bundle
           dispatched == DispatchesOf(Peer(e), bundle.message.q)
       IN (bundle.binaryData.kind = "array" /\ Len(bundle.binaryData.items) \in counts) =>
             /\ Cardinality(dispatched) <= 1
             /\ \A j \in dispatched :
                   /\ events[Peer(e)][j].route = bundle.message.r
                   /\ events[Peer(e)][j].body = bundle.message.b
                   /\ events[Peer(e)][j].binaryData = bundle.binaryData
             /\ Cardinality(Of(events[Peer(e)], "rawMessage")) >= SentBefore(e, k)
                => Cardinality(dispatched) = 1

\* C6 as stated: a message sent with a list of N >= 1 frames is dispatched at
\* the receiver exactly once, with the sender's route and body and the N
\* frames in order.
C6_Stated == \A e \in Conns : Transferred(e, 1..(FrameCountMax + 1))

\* C6 within the schema's limit: a message sent with a list of N frames, N
\* from 1 to 99, is dispatched at the receiver exactly once, with the sender's
\* route and body and the N frames in order; one sent with more frames is
\* never dispatched.
C6_Transfer ==
    \A e \in Conns :
       /\ Transferred(e, 1..FrameCountMax)
       /\ \A k \in Of(events[e], "send") :
             (/\ events[e][k].bundle.binaryData.kind = "array"
              /\ Len(events[e][k].bundle.binaryData.items) > FrameCountMax)
             => DispatchesOf(Peer(e), events[e][k].bundle.message.q) = {}

\* The server has dispatched a transfer of 99 frames, all in order
C6_Witness ==
    \E k \in Of(events["server"], "dispatch") :
       events["server"][k].binaryData = Frames(FrameCountMax)

\* The frames the step added to those in flight towards e
Arrived(e) == SubSeq(wire'[e], Len(wire[e]) + 1, Len(wire'[e]))

\* C7: for a bundle whose payload is a list of N frames, send sets the
\* envelope's frameCount to N and makes N + 1 transport sends: the JSON text
\* of the envelope, then the N frames in the order of the list.
C7_Frames ==
    [][\A e \in Conns :
         (Len(NewSends(e)) = 1 /\ NewSends(e)[1].bundle.binaryData.kind = "array") =>
            LET bundle == NewSends(e)[1].bundle
                items == bundle.binaryData.items
            IN /\ bundle.message.f = JsNum(Len(items))
               /\ Len(Arrived(Peer(e))) = Len(items) + 1
               /\ Arrived(Peer(e))[1] = Stringify(bundle.message)
               /\ \A j \in DOMAIN items : Arrived(Peer(e))[j + 1] = RawFrame(items[j])
               /\ \E n \in FrameCounts : bundle.binaryData = Frames(n)]_vars

\* A list of two frames was sent: the envelope with frameCount 2, then the
\* first frame, then the second
C7_Witness ==
    /\ Len(wire["server"]) = 3
    /\ wire["server"][1].kind = "text"
    /\ wire["server"][1].obj["f"] = JsNum(2)
    /\ wire["server"][2] = RawFrame(Frame(1))
    /\ wire["server"][3] = RawFrame(Frame(2))

-----------------------------------------------------------------------------
(* The receive path's failures and the default routes.                     *)

\* C11 as stated: no sequence of inbound messages makes an exception leave the
\* receive path.
C11_Stated == \A e \in Conns : ~thrown[e]

\* A text that cannot be parsed into an envelope: no JSON of an object, or an
\* object that lacks origin, network, method, route or body
Unparsable(frame) ==
    frame.kind = "text" /\ (~frame.ok \/ \E k \in {"o", "n", "m", "r", "b"} : k \notin DOMAIN frame.obj)

\* C12: inbound text that cannot be parsed into an envelope fires exactly one
\* droppedMessage, carrying the text, invokes no listener, and leaves the
\* pending-response map, the queue and the pending reassembly buffer as they
\* were; nothing is sent.
C12_Unparsable ==
    [][\A e \in Conns :
         (Received(e) /\ Unparsable(NewEvents(e)[1].data)) =>
            /\ Len(NewEvents(e)) = 2
            /\ NewEvents(e)[2] = [type |-> "droppedMessage", data |-> NewEvents(e)[1].data]
            /\ responseCallbacks'[e] = responseCallbacks[e]
            /\ queuedMessages'[e] = queuedMessages[e]
            /\ binaryBuffer'[e] = binaryBuffer[e]
            /\ responses'[e] = responses[e]
            /\ wire'[Peer(e)] = wire[Peer(e)]
            /\ ~thrown'[e]]_vars

\* A text without body was dropped while a transfer was pending with one frame
\* received, and the transfer is still pending with that frame
C12_Witness ==
    /\ binaryBuffer["server"].pending
    /\ Len(binaryBuffer["server"].messageBuffer) = 1
    /\ Len(events["server"]) >= 2
    /\ events["server"][Len(events["server"])].type = "droppedMessage"
    /\ events["server"][Len(events["server"])].data.kind = "text"
    /\ events["server"][Len(events["server"])].data.ok
    /\ "b" \notin DOMAIN events["server"][Len(events["server"])].data.obj

\* The envelope whose receipt the step at e completes, as a set: the envelope
\* of a text that announces no frames, of one binary message, or the control
\* envelope of a transfer whose last frame arrives
Completed(e) ==
    IF ~Received(e) THEN {}
    ELSE LET frame == NewEvents(e)[1].data
             buffer == binaryBuffer[e]
         IN CASE frame.kind = "text" ->
                   IF ~Unparsable(frame) /\ Get(frame.obj, "f") \in {JsNull, JsUndefined}
                   THEN {MessageFromString(frame).message} ELSE {}
              [] frame.kind = "binary" /\ ~buffer.pending ->
                   IF ~BundleFromBinary(frame).threw
                   THEN {BundleFromBinary(frame).bundle.message} ELSE {}
              [] OTHER ->
                   IF /\ buffer.length.t = "number" /\ buffer.length.n >= 1
                      /\ Len(buffer.messageBuffer) + 1 = buffer.length.n
                   THEN {buffer.mainMessage} ELSE {}

\* C13: an inbound envelope that fails schema validation fires droppedMessage
\* and no listener is invoked, whether it arrived as text, as one binary
\* message, or as a completed transfer of frames.
C13_Invalid ==
    [][\A e \in Conns : \A message \in Completed(e) :
         FailedValidator(MESSAGE_BUNDLE_SCHEMA, message) # 0 =>
            /\ Cardinality(Of(NewEvents(e), "droppedMessage")) = 1
            /\ \A k \in Of(NewEvents(e), "droppedMessage") :
                  NewEvents(e)[k].data = NewEvents(e)[1].data
            /\ Of(NewEvents(e), "dispatch") = {}
            /\ Of(NewEvents(e), "callback") = {}
            /\ responses'[e] = responses[e]
            /\ wire'[Peer(e)] = wire[Peer(e)]]_vars

\* The server has dropped an invalid envelope in each of the three forms: a
\* text, one binary message, and a transfer completed by its only frame
C13_Witness ==
    /\ Cardinality(Of(events["server"], "droppedMessage")) = 3
    /\ Of(events["server"], "dispatch") = {}
    /\ \E i, j, k \in Of(events["server"], "droppedMessage") :
          /\ events["server"][i].data.kind = "text"
          /\ events["server"][j].data = BinaryInvalid
          /\ events["server"][k].data = RawFrame(ChunkA)
          /\ k > 2
          /\ events["server"][k - 2].type = "rawMessage"
          /\ events["server"][k - 2].data = ControlInvalidOne

\* The positions of the dispatches of pings in a sequence of events
PingDispatches(evs) == {k \in Of(evs, "dispatch") : evs[k].method = "ping"}

\* What C14 says of the pings whose id is in ids: the step that receives one
\* hands exactly one res envelope with body "pong" and the id and route of
\* the ping to the send path
Ponged(e, carrying) ==
    \A k \in PingDispatches(NewEvents(e)) :
       Truthy(NewEvents(e)[k].bundle.message.i) \in carrying =>
          /\ Len(Handed(e)) = 1
          /\ Handed(e)[1].message.m = JsStr("res")
          /\ Handed(e)[1].message.b = JsStr("pong")
          /\ Handed(e)[1].message.i = NewEvents(e)[k].bundle.message.i
          /\ Handed(e)[1].message.r = NewEvents(e)[k].route

\* C14 as stated: on receiving a ping the connection hands exactly one res
\* envelope with body "pong", the ping's id and the ping's route to its send
\* path.
C14_Stated == [][\A e \in Conns : Ponged(e, BOOLEAN)]_vars

\* C14 for the pings that carry an id
C14_WithId == [][\A e \in Conns : Ponged(e, {TRUE})]_vars

\* What C15 says of the pings whose id is in ids: a ping whose network differs
\* from the connection's network id and from 'toolbox' makes the network id
\* the envelope's network and fires one 'network' event with the new and the
\* previous value; any other ping changes nothing and fires none
Networked(e, carrying) ==
    \A k \in PingDispatches(NewEvents(e)) :
       Truthy(NewEvents(e)[k].bundle.message.i) \in carrying =>
          LET network == NewEvents(e)[k].bundle.message.n
              fired == Of(NewEvents(e), "network")
          IN IF network # JsStr("toolbox") /\ network # networkId[e]
             THEN /\ networkId'[e] = network
                  /\ Cardinality(fired) = 1
                  /\ \A j \in fired : /\ NewEvents(e)[j].network = network
                                      /\ NewEvents(e)[j].previous = networkId[e]
             ELSE networkId'[e] = networkId[e] /\ fired = {}

\* C15 as stated: a ping from another network than the connection's and than
\* 'toolbox' sets the network id and fires one 'network' event with the new
\* and the previous value; any other ping leaves the network id and fires no
\* event.
C15_Stated == [][\A e \in Conns : Networked(e, BOOLEAN)]_vars

\* C15 for the pings that carry an id
C15_WithId == [][\A e \in Conns : Networked(e, {TRUE})]_vars

\* C18 as stated: a meta message with route requestParallel (confirmParallel)
\* and body id fires a 'requestParallel' ('confirmParallel') event carrying
\* id at the receiver; a meta message with another route fires neither.
C18_Stated ==
    \A e \in Conns : \A k \in Of(events[e], "rawMessage") :
       LET data == events[e][k].data IN
       (data.kind = "text" /\ data.ok /\ Get(data.obj, "m") = JsStr("meta")) =>
          IF Get(data.obj, "r") \in {JsStr("requestParallel"), JsStr("confirmParallel")}
          THEN /\ k < Len(events[e])
               /\ events[e][k + 1].type = Get(data.obj, "r").s
               /\ events[e][k + 1].body = Get(data.obj, "b")
          ELSE k = Len(events[e]) \/ events[e][k + 1].type = "rawMessage"

-----------------------------------------------------------------------------
(* The keepalive.                                                          *)

\* The positions of the keepalive pings e has transmitted
KeepaliveSends(evs) == {k \in Of(evs, "send") : evs[k].callback.kind = "pong"}

\* C16 as stated, its safety part: once the reply to a keepalive ping has
\* been received, that ping has been followed by exactly one 'pong' event (the
\* callback of that ping has run once).
C16_Stated ==
    \A e \in Conns : \A k \in KeepaliveSends(events[e]) :
       LET q == events[e][k].bundle.message.q IN
       (\E j \in ResDispatches(events[e]) : events[e][j].q = q) =>
          Cardinality({i \in Of(events[e], "callback") :
                          events[e][i].callback = PongCallback(q)}) = 1

\* The connection e has had its socket's close event
Closed(e) == Of(events[e], "close") # {}

\* After the close event the step generates no keepalive ping at e: none is
\* sent and none is appended to the queue
C17_Step ==
    \A e \in Conns :
       Closed(e) =>
          /\ \A k \in DOMAIN NewSends(e) : NewSends(e)[k].callback.kind # "pong"
          /\ \A k \in DOMAIN queuedMessages'[e] :
                k > Len(queuedMessages[e]) => queuedMessages'[e][k].callback.kind # "pong"
          /\ Len(queuedMessages'[e]) >= Len(queuedMessages[e])

\* C17: after the transport's close event the keepalive timer is cleared, and
\* no further keepalive ping is generated for that transport, neither sent nor
\* appended to the queue.
C17_Cleared == [](\A e \in Conns : Closed(e) => ~pingTimer[e]) /\ [][C17_Step]_vars

\* The client's transport has closed while the interval had ticks left, and
\* the server's timer is still armed
C17_Witness ==
    /\ Closed("client")
    /\ ~pingTimer["client"]
    /\ pingTimer["server"]
    /\ budget.ticks > 0

-----------------------------------------------------------------------------
(* The ToolSocketServer.                                                   *)

\* The positions of the events of one type in the server's record
OfServer(type) == Of(registry.events, type)

\* The requests whose id no other request shares
Alone(k) ==
    \A j \in OfServer("request") :
       registry.events[j].id = registry.events[k].id => j = k

\* The meta/requestParallel messages carrying id that the connection e has
\* handed to its send path: sent (positions of events) or queued (negative
\* positions of the queue)
Requesting(e, id) ==
    {k \in Of(events[e], "send") :
        /\ events[e][k].bundle.message.m = JsStr("meta")
        /\ events[e][k].bundle.message.r = JsStr("requestParallel")
        /\ events[e][k].bundle.message.b = id}
    \cup {0 - k : k \in {j \in DOMAIN queuedMessages[e] :
                            /\ queuedMessages[e][j].messageBundle.message.m = JsStr("meta")
                            /\ queuedMessages[e][j].messageBundle.message.r =
                                  JsStr("requestParallel")
                            /\ queuedMessages[e][j].messageBundle.message.b = id}}

\* What C19 says of the requests in asked: the request is recorded in the
\* ledger under its id and sent as one meta/requestParallel message carrying
\* the id over its source; once a connection has reported confirmParallel
\* with that id the handle is resolved, with the first connection that did,
\* and the id is no longer in the ledger for it; no handle is resolved twice,
\* and a confirmParallel with an id that is not in the ledger resolves
\* nothing
Parallel(asked) ==
    /\ \A k \in asked :
          LET request == registry.events[k]
              confirmed == {j \in OfServer("confirmParallel") :
                               j > k /\ registry.events[j].id = request.id}
              resolved == {i \in OfServer("resolve") :
                              registry.events[i].handle = request.handle}
          IN /\ Cardinality(Requesting(request.source, request.id)) =
                   Cardinality({j \in OfServer("request") :
                                   /\ registry.events[j].source = request.source
                                   /\ registry.events[j].id = request.id})
             /\ Cardinality(resolved) <= 1
             /\ confirmed = {} =>
                   /\ resolved = {}
                   /\ request.id \in DOMAIN registry.pendingParallelRequests
             /\ confirmed # {} =>
                   /\ Cardinality(resolved) = 1
                   /\ request.id \in DOMAIN registry.pendingParallelRequests =>
                         registry.pendingParallelRequests[request.id] # request.handle
                   /\ \A i \in resolved :
                         LET first == CHOOSE j \in confirmed : \A x \in confirmed : j <= x
                         IN /\ i = first + 1
                            /\ registry.events[i].toolSocket =
                                  registry.events[first].toolSocket
    /\ \A i \in OfServer("resolve") :
          /\ registry.events[i - 1].type = "confirmParallel"
          /\ \E k \in OfServer("request") :
                /\ k < i
                /\ registry.events[k].handle = registry.events[i].handle
                /\ registry.events[k].id = registry.events[i - 1].id

\* C19 as stated: requestParallelSocket sends one meta/requestParallel message
\* with a fresh id over the source and records the id; a later confirmParallel
\* with that id resolves the handle with the confirming connection and
\* removes the entry; every handle is resolved at most once, and a
\* confirmParallel with an id not in the ledger resolves nothing.
C19_Stated == Parallel(OfServer("request"))

\* C19 for the requests whose id no other request was given
C19_Alone == Parallel({k \in OfServer("request") : Alone(k)})

\* The connections the server has accepted, in the order of the accepts
Accepted == [k \in 1..Cardinality(OfServer("connection")) |->
               registry.events[CHOOSE j \in OfServer("connection") :
                                  Cardinality({i \in OfServer("connection") : i <= j}) = k
                              ].toolSocket]

\* The transport of the connection has not closed
Live(e) == readyState[e] # "CLOSED"

\* C20: the live list holds exactly the accepted connections whose transport
\* has not closed, each once, in the order they were accepted; each accepted
\* connection had one 'connection' event.
C20_LiveList ==
    /\ registry.sockets = SelectSeq(Accepted, Live)
    /\ \A j, k \in DOMAIN Accepted : Accepted[j] = Accepted[k] => j = k
    /\ \A e \in ServerSide \cap DOMAIN readyState :
          Constructed(e) <=> \E k \in DOMAIN Accepted : Accepted[k] = e

\* Two connections were accepted, the one accepted first has closed, and the
\* list holds the other
C20_Witness ==
    /\ Len(Accepted) = 2
    /\ ~Live(Accepted[1])
    /\ registry.sockets = <<Accepted[2]>>

-----------------------------------------------------------------------------
(* The io channel and the reply envelope.                                  *)

\* The positions where e received the text of a valid io envelope
IoReceived(evs) ==
    {k \in Of(evs, "rawMessage") :
        /\ evs[k].data.kind = "text" /\ evs[k].data.ok
        /\ Get(evs[k].data.obj, "m") = JsStr("io")}

\* The listeners of the route's name are called with the body and the binary
\* payload of the io message received at k, no response object is made for it
\* and nothing is sent
IoHandled(e, k) ==
    LET data == events[e][k].data IN
    /\ k + 2 <= Len(events[e])
    /\ events[e][k + 1].type = "dispatch"
    /\ events[e][k + 1].response = 0
    /\ events[e][k + 2].type = "io"
    /\ events[e][k + 2].route = Get(data.obj, "r")
    /\ events[e][k + 2].body = Get(data.obj, "b")
    /\ events[e][k + 2].binaryData = NoBinary
    /\ k + 3 <= Len(events[e]) => events[e][k + 3].type = "rawMessage"

\* C21 as stated: a received io message with route R calls the application's
\* listeners registered under the name R with the body and the binary
\* payload; a message sent with emit carries no id, and no reply is produced
\* for it.
C21_Stated == \A e \in Conns : \A k \in IoReceived(events[e]) : IoHandled(e, k)

\* What holds of C21: the same for every route but 'ping'
C21_OtherRoutes ==
    \A e \in Conns : \A k \in IoReceived(events[e]) :
       Get(events[e][k].data.obj, "r") # JsStr("ping") => IoHandled(e, k)
\* The response objects of e that send in the step
Replying(e) ==
    {h \in DOMAIN responses'[e] :
        /\ responses'[e][h].sent
        /\ h \in DOMAIN responses[e] => ~responses[e][h].sent}

\* C22: the envelope a response object sends has method res and the route, id
\* and network of the envelope the object was made for; its body is never null
\* or undefined: the application's body when it gave one, the number 204 when
\* it gave null or none.
C22_Reply ==
    [][\A e \in Conns : \A h \in Replying(e) :
         LET original == responses'[e][h].originalMessage IN
         /\ Len(Handed(e)) = 1
         /\ Handed(e)[1].message.m = JsStr("res")
         /\ Handed(e)[1].message.r = original.r
         /\ Handed(e)[1].message.i = original.i
         /\ Handed(e)[1].message.n = original.n
         /\ Handed(e)[1].message.b \notin {JsNull, JsUndefined}
         /\ budget'.replies < budget.replies =>
               \E reply \in AppReplies :
                  /\ Handed(e)[1].binaryData = reply.binaryData
                  /\ Handed(e)[1].message.b =
                        IF reply.body \in {JsNull, JsUndefined} THEN JsNum(204)
                        ELSE reply.body]_vars

\* The server has replied 204 to the request with id idC that came from the
\* network net1 while its own network was another
C22_Witness ==
    /\ networkId["server"] # JsStr("net1")
    /\ \E k \in Of(events["server"], "send") :
          LET message == events["server"][k].bundle.message IN
          /\ message.m = JsStr("res")
          /\ message.b = JsNum(204)
          /\ message.i = JsStr("idC")
          /\ message.n = JsStr("net1")
          /\ events["server"][k].bundle.binaryData = NoBinary

-----------------------------------------------------------------------------
(* utilities.js on its own: intToByte and byteToInt applied to a number.   *)

\* The 16-bit halves the numbers are made of: the ends and the middle of the
\* range, and the values around the sign bit and the byte borders
Halves == {0, 1, 127, 128, 255, 256, 257, 32767, 32768, 65535}
Numbers == {UInt(hi, lo) : hi \in Halves, lo \in Halves}

InitBytes == InitConns /\ eval \in {[fn |-> "number", num |-> num] : num \in Numbers}

IntToByte ==
    /\ eval.fn = "number"
    /\ eval' = [fn |-> "intToByte", num |-> eval.num, bytes |-> intToByte(eval.num)]
    /\ UNCHANGED conns

ByteToInt ==
    /\ eval.fn = "intToByte"
    /\ eval' = [fn |-> "byteToInt", num |-> eval.num, bytes |-> eval.bytes,
                result |-> byteToInt(eval.bytes)]
    /\ UNCHANGED conns

NextBytes == IntToByte \/ ByteToInt
SpecBytes == InitBytes /\ [][NextBytes]_vars

\* C24: for every integer n of [0, 2^32-1], intToByte(n) is four bytes, the
\* most significant first (the first two make the upper half of n, the last
\* two the lower half), and byteToInt of them is n.
C24_RoundTrip ==
    /\ eval.fn \in {"intToByte", "byteToInt"} =>
          /\ \A k \in 1..4 : eval.bytes[k] \in 0..255
          /\ eval.bytes[1] * 256 + eval.bytes[2] = eval.num.hi
          /\ eval.bytes[3] * 256 + eval.bytes[4] = eval.num.lo
    /\ eval.fn = "byteToInt" => eval.result = eval.num

\* 2^32 - 1 has made the round trip
C24_Witness ==
    /\ eval.fn = "byteToInt"
    /\ eval.num = UInt(65535, 65535)
    /\ eval.bytes = <<255, 255, 255, 255>>
    /\ eval.result = UInt(65535, 65535)

-----------------------------------------------------------------------------
(* MessageBundle.js on its own: toBinary and fromBinary applied to a       *)
(* bundle whose binaryData is one Uint8Array, or null.                     *)

\* The envelopes: the body a JSON value or null, with an id and without
Messages ==
    {ToolSocketMessage(JsStr(origin), JsStr("net1"), JsStr(method), JsStr(route), body, id) :
        origin \in {"client", "server"}, method \in {"post", "res"}, route \in {"/", "/x"},
        body \in {JsStr("hello"), JsStr(""), JsNum(204), JsNull, JsObj("data")},
        id \in {JsStr("idA"), JsNull, JsUndefined}}

Bundles ==
    {MessageBundle(message, binaryData) :
        message \in Messages,
        binaryData \in {SingleBinary(ChunkA), SingleBinary(ChunkB), SingleBinary(EmptyChunk),
                        NoBinary}}

InitCodec == InitConns /\ eval \in {[fn |-> "bundle", bundle |-> bundle] : bundle \in Bundles}

BundleToBinary ==
    /\ eval.fn = "bundle"
    /\ eval' = [fn |-> "toBinary", bundle |-> eval.bundle, binary |-> ToBinary(eval.bundle)]
    /\ UNCHANGED conns

BinaryToBundle ==
    /\ eval.fn = "toBinary"
    /\ eval' = [fn |-> "fromBinary", bundle |-> eval.bundle, binary |-> eval.binary,
                result |-> BundleFromBinary(eval.binary)]
    /\ UNCHANGED conns

NextCodec == BundleToBinary \/ BinaryToBundle
SpecCodec == InitCodec /\ [][NextCodec]_vars

\* C23: for a bundle with one binary payload, the encoded form is four bytes
\* that are the length of the envelope's JSON with the most significant byte
\* first, the JSON, then the payload; and fromBinary of it gives an envelope
\* equal to the original, field by field, and the payload of the original.
C23_RoundTrip ==
    (eval.fn \in {"toBinary", "fromBinary"} /\ eval.bundle.binaryData.kind = "single") =>
       /\ Len(eval.binary.prefix) = 4
       /\ \A k \in 1..4 : eval.binary.prefix[k] \in 0..255
       /\ eval.binary.prefix[1] = 0
       /\ eval.binary.prefix[2] * 65536 + eval.binary.prefix[3] * 256
             + eval.binary.prefix[4] = eval.binary.json.len
       /\ eval.binary.json = Stringify(eval.bundle.message)
       /\ eval.binary.rest = eval.bundle.binaryData.items[1]
       /\ eval.binary.len = 4 + eval.binary.json.len + eval.bundle.binaryData.items[1].len
       /\ eval.fn = "fromBinary" =>
             /\ ~eval.result.threw
             /\ \A key \in EnvelopeKeys :
                   eval.result.bundle.message[key] = eval.bundle.message[key]
             /\ eval.result.bundle.binaryData = eval.bundle.binaryData

\* A reply without id, with a null body and a payload of five bytes, has made
\* the round trip
C23_Witness ==
    /\ eval.fn = "fromBinary"
    /\ eval.bundle.binaryData = SingleBinary(ChunkB)
    /\ eval.bundle.message.i = JsUndefined
    /\ eval.bundle.message.b = JsNull
    /\ "i" \notin DOMAIN eval.binary.json.obj
    /\ eval.result.bundle = eval.bundle

-----------------------------------------------------------------------------
(* BinaryBuffer.js on its own: a buffer made for a control envelope, push  *)
(* and MessageBundle.fromBinaryBuffer called in any order.                 *)

\* the largest target count of a buffer
MaxLength == 4

\* calls of push on one buffer
MaxPushes == 5

\* The frames pushed
BufferFrames == {RawFrame(ChunkA), RawFrame(ChunkB)}

\* No bundle: fromBinaryBuffer has not returned one
NoBundle == MessageBundle(NoBuffer.mainMessage, NoBinary)

\* new BinaryBuffer(length) with its mainMessage set.  pushed and pushes are
\* history: the frames push has accepted, and the number of calls of push.
InitBuffer ==
    /\ InitConns
    /\ eval \in {[fn |-> "BinaryBuffer",
                   buffer |-> BinaryBuffer(JsNum(length),
                                           MessageFromString(Control(JsNum(length))).message),
                   call |-> "new", threw |-> FALSE, result |-> NoBundle,
                   pushed |-> <<>>, pushes |-> 0] : length \in 0..MaxLength}

BufferPush ==
    /\ eval.fn = "BinaryBuffer"
    /\ eval.pushes < MaxPushes
    /\ \E frame \in BufferFrames :
          LET pushing == Push(eval.buffer, frame) IN
          eval' = [eval EXCEPT !.buffer = pushing.buffer, !.call = "push",
                               !.threw = pushing.threw, !.result = NoBundle,
                               !.pushed = IF pushing.threw THEN @ ELSE Append(@, frame),
                               !.pushes = @ + 1]
    /\ UNCHANGED conns

BufferToBundle ==
    /\ eval.fn = "BinaryBuffer"
    /\ LET building == BundleFromBinaryBuffer(eval.buffer) IN
       eval' = [eval EXCEPT !.call = "fromBinaryBuffer", !.threw = building.threw,
                            !.result = IF building.threw THEN NoBundle
                                       ELSE building.bundle]
    /\ UNCHANGED conns

NextBuffer == BufferPush \/ BufferToBundle
SpecBuffer == InitBuffer /\ [][NextBuffer]_vars

\* The number of frames the buffer holds
Stored(buffer) == Len(buffer.messageBuffer)

\* C25: a buffer with target count L never holds more than L frames, isFull
\* holds exactly when it holds L, a push on a full buffer fails and leaves the
\* frames as they were, and a push on a buffer that is not full adds its frame
\* at the end.
C25_Bounded ==
    /\ [](eval.fn = "BinaryBuffer" =>
            /\ Stored(eval.buffer) <= eval.buffer.length.n
            /\ IsFull(eval.buffer) <=> Stored(eval.buffer) = eval.buffer.length.n)
    /\ [][(eval.fn = "BinaryBuffer" /\ eval'.pushes = eval.pushes + 1) =>
             IF Stored(eval.buffer) = eval.buffer.length.n
             THEN eval'.threw /\ eval'.buffer = eval.buffer
             ELSE /\ ~eval'.threw
                  /\ \E frame \in BufferFrames :
                        eval'.buffer.messageBuffer = Append(eval.buffer.messageBuffer, frame)
                  /\ eval'.buffer.length = eval.buffer.length
                  /\ eval'.buffer.mainMessage = eval.buffer.mainMessage]_vars

\* A push on a buffer that holds its two frames has failed
C25_Witness ==
    /\ eval.fn = "BinaryBuffer"
    /\ eval.call = "push"
    /\ eval.threw
    /\ eval.buffer.length = JsNum(2)
    /\ Stored(eval.buffer) = 2
    /\ eval.pushes = 3

\* C26: fromBinaryBuffer fails on a buffer that holds fewer frames than its
\* target count; on a full buffer it gives the bundle of the buffer's control
\* envelope and the list of the frames pushed, in the order of the pushes.
C26_FromBuffer ==
    (eval.fn = "BinaryBuffer" /\ eval.call = "fromBinaryBuffer") =>
       IF Stored(eval.buffer) < eval.buffer.length.n
       THEN eval.threw
       ELSE /\ ~eval.threw
            /\ Len(eval.pushed) = eval.buffer.length.n
            /\ eval.result.message = MessageFromString(Control(eval.buffer.length)).message
            /\ eval.result.binaryData.kind = "array"
            /\ eval.result.binaryData.items =
                  [k \in 1..Len(eval.pushed) |-> eval.pushed[k].whole]

\* A bundle has been built from a buffer of two different frames
C26_Witness ==
    /\ eval.fn = "BinaryBuffer"
    /\ eval.call = "fromBinaryBuffer"
    /\ ~eval.threw
    /\ eval.pushed = <<RawFrame(ChunkB), RawFrame(ChunkA)>>
    /\ eval.result.binaryData = ArrayBinary(<<ChunkB, ChunkA>>)
    /\ eval.result.message.f = JsNum(2)

-----------------------------------------------------------------------------
(* Schema.js on its own: MESSAGE_BUNDLE_SCHEMA.validate called on objects, *)
(* and the validate of its grouped validators.                             *)

\* A key the object does not have
Absent == [t |-> "absent", s |-> "", n |-> 0]
JsTrue == [t |-> "boolean", s |-> "", n |-> 1]
JsArray(length) == [t |-> "array", s |-> "", n |-> length]

\* The object with the keys of fields that are not Absent
ObjectOf(fields) ==
    [key \in {k \in DOMAIN fields : fields[k] # Absent} |-> fields[key]]

\* A name of 26 characters, one more than a network may have
LongName == "abcdefghijklmnopqrstuvwxyz"

SchemaObjects ==
    {ObjectOf([i |-> i, o |-> o, n |-> n, m |-> JsStr("post"), r |-> JsStr("/x"), b |-> b,
               s |-> JsNull, f |-> f]) :
        i \in {JsStr("idA"), JsUndefined, JsNum(7)},
        o \in {JsStr("client"), JsStr("bogus"), Absent},
        n \in {JsStr("net1"), JsStr(""), JsStr("a b"), JsStr(LongName)},
        b \in {JsStr("hello"), JsUndefined, Absent},
        f \in {JsNull, JsNum(0), JsNum(FrameCountMax), JsNum(FrameCountMax + 1)}}

\* calls of validate on one schema
MaxValidations == 2

\* new Schema(validators): failedValidator is null (0).  before is history:
\* failedValidator as the last call found it.
InitSchema ==
    /\ InitConns
    /\ eval = [fn |-> "Schema", failedValidator |-> 0, calls |-> 0, object |-> <<>>,
               result |-> TRUE, before |-> 0]

SchemaValidateCall ==
    /\ eval.fn = "Schema"
    /\ eval.calls < MaxValidations
    /\ \E object \in SchemaObjects :
          eval' = [fn |-> "Schema",
                   failedValidator |-> FailedValidator(MESSAGE_BUNDLE_SCHEMA, object),
                   calls |-> eval.calls + 1, object |-> object,
                   result |-> SchemaValidate(MESSAGE_BUNDLE_SCHEMA, object),
                   before |-> eval.failedValidator]
    /\ UNCHANGED conns

NextSchema == SchemaValidateCall
SpecSchema == InitSchema /\ [][NextSchema]_vars

\* The grouped validators of MESSAGE_BUNDLE_SCHEMA
GroupValidators == {k \in 1..Len(MESSAGE_BUNDLE_SCHEMA) : MESSAGE_BUNDLE_SCHEMA[k].kind = "group"}

\* The values a key is given
GroupValues ==
    {JsStr("idA"), JsStr(""), JsStr("a b"), JsStr(LongName \o LongName), JsNum(0), JsNum(1),
     JsNum(FrameCountMax), JsNum(FrameCountMax + 1), JsNull, JsUndefined, JsTrue,
     JsArray(2), JsObj("data"), Absent}

InitGroup ==
    /\ InitConns
    /\ eval \in {[fn |-> "GroupValidator", validator |-> k,
                   object |-> ObjectOf([x \in {MESSAGE_BUNDLE_SCHEMA[k].key, "o"} |->
                                           IF x = "o" THEN other ELSE value])] :
                    k \in GroupValidators, value \in GroupValues,
                    other \in {Absent, JsStr("client")}}

GroupValidateCall ==
    /\ eval.fn = "GroupValidator"
    /\ eval' = [fn |-> "GroupValidator.validate", validator |-> eval.validator,
                object |-> eval.object,
                result |-> ValidatorValidate(MESSAGE_BUNDLE_SCHEMA[eval.validator],
                                             eval.object)]
    /\ UNCHANGED conns

NextGroup == GroupValidateCall
SpecGroup == InitGroup /\ [][NextGroup]_vars

\* A string of at least least and at most most characters, all of chars
StringWithin(value, least, most, chars) ==
    /\ value.t = "string"
    /\ value.s # HugeString
    /\ Len(value.s) >= least /\ Len(value.s) <= most
    /\ \A k \in 1..Len(value.s) : CharAt(value.s, k) \in chars

\* The alternatives schemas.js gives for the keys i, b, s and f: the value
\* satisfies one of them
Alternative(key, value) ==
    CASE key = "i" -> StringWithin(value, 1, 22, WordChars) \/ value \in {JsNull, JsUndefined}
      [] key = "s" -> StringWithin(value, 0, 45, WordChars) \/ value \in {JsNull, JsUndefined}
      [] key = "f" -> \/ value.t = "number" /\ value.n >= 1 /\ value.n <= FrameCountMax
                      \/ value \in {JsNull, JsUndefined}
      [] key = "b" -> \/ value.t \in {"boolean", "number", "object", "null"}
                      \/ value.t = "array" /\ value.n <= MAX_MESSAGE_SIZE
                      \/ value.t = "string" /\ StrLen(value.s) <= MAX_MESSAGE_SIZE

\* The k-th validator of MESSAGE_BUNDLE_SCHEMA, as schemas.js states it: a
\* required key is absent, or a present key breaks its constraint
Violated(k, object) ==
    LET key == MESSAGE_BUNDLE_SCHEMA[k].key
        present == key \in DOMAIN object
    IN CASE key = "o" -> ~present \/ object[key] \notin {JsStr("server"), JsStr("client"),
                                                        JsStr("web"), JsStr("edge"),
                                                        JsStr("proxy")}
         [] key = "n" -> ~present \/ ~StringWithin(object[key], 1, 25, WordChars)
         [] key = "m" -> ~present \/ object[key] \notin {JsStr(method) : method \in VALID_METHODS}
         [] key = "r" -> ~present \/ ~StringWithin(object[key], 0, 2000, RouteChars)
         [] key = "b" -> ~present \/ ~Alternative(key, object[key])
         [] OTHER -> present /\ ~Alternative(key, object[key])

\* C27: validate returns false exactly when a required key is absent or a
\* present key breaks its type, enumeration, length, range or pattern
\* constraint, and true otherwise; after a failure failedValidator is the
\* first validator of the schema that failed, after a success it is null.
C27_Validate ==
    (eval.fn = "Schema" /\ eval.calls > 0) =>
       LET violated == {k \in 1..Len(MESSAGE_BUNDLE_SCHEMA) : Violated(k, eval.object)} IN
       /\ eval.result <=> violated = {}
       /\ violated = {} => eval.failedValidator = 0
       /\ violated # {} =>
             /\ eval.failedValidator \in violated
             /\ \A k \in violated : eval.failedValidator <= k

\* A validation has succeeded after one that failed on an object that breaks
\* two constraints
C27_Witness ==
    /\ eval.fn = "Schema"
    /\ eval.calls = 2
    /\ eval.before = 2
    /\ eval.result
    /\ eval.failedValidator = 0
    /\ "i" \in DOMAIN eval.object /\ eval.object["i"] = JsUndefined

\* C28: on an object that has the key, a grouped validator passes exactly
\* when one of its sub-validators passes.
C28_Group ==
    LET key == MESSAGE_BUNDLE_SCHEMA[eval.validator].key IN
    (eval.fn = "GroupValidator.validate" /\ key \in DOMAIN eval.object) =>
       (eval.result <=> Alternative(key, eval.object[key]))

\* The validator of f has passed on 99 by one alternative only
C28_Witness ==
    /\ eval.fn = "GroupValidator.validate"
    /\ MESSAGE_BUNDLE_SCHEMA[eval.validator].key = "f"
    /\ "f" \in DOMAIN eval.object
    /\ eval.object["f"] = JsNum(FrameCountMax)
    /\ eval.result

-----------------------------------------------------------------------------
(* Schema.js on its own: URL_SCHEMA.parseRoute applied to a route and      *)
(* URL_SCHEMA.parseUrl applied to a URL.                                   *)

\* The path segments the routes are made of: the expected key, a network
\* name, names with a dot (js is a file type of the schema, b is none), the
\* empty segment
RouteSegments == {"", "n", "net1", "a.js", "a.b"}

\* The text after the path
RouteQueries == {"", "?k=v", "?a/n?b"}

\* segments of a route
MaxSegments == 5

\* array.join('/')
RECURSIVE Join(_)
Join(segments) ==
    IF Len(segments) = 1 THEN segments[1]
    ELSE Join(SubSeq(segments, 1, Len(segments) - 1)) \o "/" \o Last(segments)

\* The route is the segments joined by '/' and the text after the path;
\* segments and search are kept as history
InitRoute ==
    /\ InitConns
    /\ eval \in {[fn |-> "route", route |-> Join(segments) \o search,
                   segments |-> segments, search |-> search] :
                    segments \in UNION {[1..length -> RouteSegments] :
                                          length \in 1..MaxSegments},
                    search \in RouteQueries}

ParseRouteCall ==
    /\ eval.fn = "route"
    /\ eval' = [fn |-> "parseRoute", route |-> eval.route, segments |-> eval.segments,
                search |-> eval.search,
                result |-> parseRoute(URL_SCHEMA, eval.route, FALSE)]
    /\ UNCHANGED conns

NextRoute == ParseRouteCall
SpecRoute == InitRoute /\ [][NextRoute]_vars

\* The URL objects: schemes with and without a default port, with a port and
\* without (a URL object has no port when the port given is the default of its
\* scheme), host names the schema accepts and refuses
UrlPaths == {<<"", "">>, <<"", "n", "net1">>, <<"", "n", "net1", "a.js">>,
             <<"", "n", "net1", "a.b">>, <<"", "a.js", "n", "net1", "n", "">>}
Urls ==
    {url \in [protocol : {"ws:", "wss:", "http:", "https:", "spatialtoolbox:", "ftp:"},
              hostname : {"localhost", "[::1]"},
              port : {"", "80", "443", "8080"},
              segments : UrlPaths,
              searchParams : {"", "k=v"}] :
        /\ url.protocol \in {"ws:", "http:"} => url.port # "80"
        /\ url.protocol \in {"wss:", "https:"} => url.port # "443"}

\* url.pathname is the segments joined by '/'
InitUrl ==
    /\ InitConns
    /\ eval \in {[fn |-> "url",
                   url |-> [protocol |-> url.protocol, hostname |-> url.hostname,
                            port |-> url.port, pathname |-> Join(url.segments),
                            searchParams |-> url.searchParams],
                   segments |-> url.segments] : url \in Urls}

ParseUrlCall ==
    /\ eval.fn = "url"
    /\ eval' = [fn |-> "parseUrl", url |-> eval.url, segments |-> eval.segments,
                result |-> parseUrl(URL_SCHEMA, eval.url)]
    /\ UNCHANGED conns

NextUrl == ParseUrlCall
SpecUrl == InitUrl /\ [][NextUrl]_vars

\* The segments a walk from left to right takes for keys: a segment that is
\* the expected key n and is not the segment after a key
KeysIn(segments) ==
    LET isKey[i \in 1..Len(segments)] ==
           segments[i] = "n" /\ (i = 1 \/ ~isKey[i - 1])
    IN {i \in 1..Len(segments) : isKey[i]}

\* The residual route: the non-empty segments that are neither a key nor the
\* segment after a key, each after a '/'
Residual(segments) ==
    LET keys == KeysIn(segments)
        upTo[i \in 0..Len(segments)] ==
           IF i = 0 THEN ""
           ELSE IF i \in keys \/ (i - 1) \in keys \/ segments[i] = "" THEN upTo[i - 1]
           ELSE upTo[i - 1] \o "/" \o segments[i]
    IN upTo[Len(segments)]

\* The object the claim describes for the segments and the text after the
\* path, a key being stored from the positions storing
Described(segments, search, storing) ==
    LET final == Last(segments)
        dots == {k \in 1..Len(final) : CharAt(final, k) = "."}
        plain == [route |-> JsStr(Residual(segments)),
                  query |-> JsStr(SubSeq(search, 2, Len(search)))]
        typed == IF dots = {} THEN plain
                 ELSE With(plain, "type",
                           JsStr(SubSeq(final, (CHOOSE k \in dots : \A j \in dots : j <= k) + 1,
                                        Len(final))))
    IN IF storing = {} THEN typed
       ELSE With(typed, "n",
                 JsStr(segments[(CHOOSE i \in storing : \A j \in storing : j <= i) + 1]))

\* The object passes URL_SCHEMA, as schemas.js states it
UrlValid(object) ==
    /\ "n" \in DOMAIN object /\ StringWithin(object["n"], 1, 25, WordChars)
    /\ "type" \in DOMAIN object => object["type"] \in {JsStr(type) : type \in VALID_FILETYPES}
    /\ "protocol" \in DOMAIN object =>
          object["protocol"] \in {JsStr("spatialtoolbox"), JsStr("ws"), JsStr("wss"),
                                  JsStr("http"), JsStr("https")}
    /\ "query" \in DOMAIN object => StringWithin(object["query"], 0, 2000, QueryChars)
    /\ "route" \in DOMAIN object => StringWithin(object["route"], 0, 2000, UrlRouteChars)
    /\ "server" \in DOMAIN object => StringWithin(object["server"], 0, 2000, ServerChars)
    /\ "port" \in DOMAIN object =>
          object["port"].t = "number" /\ object["port"].n >= 0 /\ object["port"].n <= 99999

\* The result the claim describes: the object, or null when it fails the schema
ResultOf(object) == IF UrlValid(object) THEN Object(object) ELSE Null

\* C29 as stated: every segment equal to an expected key is removed together
\* with the segment that follows it and stored as key -> value; the other
\* non-empty segments make the residual route; type is there exactly when the
\* final segment has a dot; the text after '?' is the query; the result is null
\* when the object fails the schema.
C29_Stated ==
    eval.fn = "parseRoute" =>
       eval.result =
          ResultOf(Described(eval.segments, eval.search,
                             {i \in KeysIn(eval.segments) : i < Len(eval.segments)}))

\* C29, corrected: the same, but the segment after a key is stored only when
\* it is not empty; a key followed by an empty segment or by none stores
\* nothing and leaves a value stored before as it was.
C29_ParseRoute ==
    eval.fn = "parseRoute" =>
       eval.result =
          ResultOf(Described(eval.segments, eval.search,
                             {i \in KeysIn(eval.segments) :
                                 i < Len(eval.segments) /\ eval.segments[i + 1] # ""}))

\* a.b/n/net1/n/ has been parsed: the second n is followed by an empty
\* segment, and the network stays net1
C29_Witness ==
    /\ eval.fn = "parseRoute"
    /\ eval.route = "a.b/n/net1/n/?k=v"
    /\ ~eval.result.null
    /\ eval.result.value = [route |-> JsStr("/a.b"), query |-> JsStr("k=v"),
                             n |-> JsStr("net1")]

\* The number a port of the URL objects is written for
PortNumber(port) ==
    IF port = "80" THEN 80 ELSE IF port = "443" THEN 443 ELSE 8080

\* The combined object the claim describes for a URL object with the given
\* path segments and the port chosen
Combined(url, segments, port) ==
    LET parsedRoute == Described(segments, "",
                                 {i \in KeysIn(segments) :
                                     i < Len(segments) /\ segments[i + 1] # ""})
        scheme == SubSeq(url.protocol, 1, Len(url.protocol) - 1)
    IN With(With(With(With(parsedRoute, "protocol", JsStr(scheme)),
                      "server", JsStr(url.hostname)),
                 "port", JsNum(port)),
            "query", JsStr(url.searchParams))

\* C30: parseUrl uses the port of the URL when it has one; without one the
\* port is 443 for wss and https, 80 for ws and http, and the result is null
\* for any other scheme; the result is null as well whenever the combined
\* object (protocol, server, port, the fields of the parsed route, query)
\* fails the schema, and is the combined object otherwise.
C30_ParseUrl ==
    eval.fn = "parseUrl" =>
       eval.result =
          IF eval.url.port # ""
          THEN ResultOf(Combined(eval.url, eval.segments, PortNumber(eval.url.port)))
          ELSE IF eval.url.protocol \in {"wss:", "https:"}
          THEN ResultOf(Combined(eval.url, eval.segments, 443))
          ELSE IF eval.url.protocol \in {"ws:", "http:"}
          THEN ResultOf(Combined(eval.url, eval.segments, 80))
          ELSE Null

\* wss://localhost/n/net1/a.js?k=v, which has no port, has been parsed with
\* port 443
C30_Witness ==
    /\ eval.fn = "parseUrl"
    /\ eval.url.protocol = "wss:" /\ eval.url.port = ""
    /\ eval.url.pathname = "/n/net1/a.js"
    /\ ~eval.result.null
    /\ eval.result.value = [protocol |-> JsStr("wss"), server |-> JsStr("localhost"),
                             port |-> JsNum(443), route |-> JsStr("/a.js"),
                             type |-> JsStr("js"), n |-> JsStr("net1"),
                             query |-> JsStr("k=v")]

-----------------------------------------------------------------------------
(* Listeners that send: the application of the client has added listeners  *)
(* of 'open', 'status' and 'rawSend' that call post from inside the event. *)

\* calls each listener of the application makes
MaxListenerCalls == 1

\* addEventListener after the constructor: the client's listeners
InitListeners ==
    /\ InitSockets
    /\ eval = NoEval
    /\ eventCallbacks \in {[NoListeners EXCEPT !["client"] = listener] :
                              listener \in [Listeners -> 0..MaxListenerCalls]}

\* The client's application sends a list of two frames, with or without a
\* callback
ListSend ==
    /\ budget.sends > 0
    /\ \E hasCallback \in BOOLEAN, id \in generateUniqueId :
          Store("client",
                SendMethod(Load("client"), budget.calls + 1, "post", JsStr("/x"),
                           JsStr("hello"),
                           IF hasCallback THEN AppCallback(budget.calls + 1) ELSE NoCallback,
                           Frames(2), id),
                wire["client"])
    /\ budget' = [budget EXCEPT !.sends = @ - 1, !.calls = @ + 1]
    /\ UNCHANGED pingTimer

NextListeners ==
    \/ Accept
    \/ SocketOpen
    \/ AppSend("client")
    \/ ListSend
    \/ \E e \in Conns : Deliver(e)
    \/ Close("client")
    \/ \E e \in Conns : SocketClose(e)
SpecListeners == InitListeners /\ [][NextListeners]_vars
\* What the step handed to the transport of e, in order
Transmitted(e) ==
    SubSeq(wire'[Peer(e)], Len(wire[Peer(e)]) + 1, Len(wire'[Peer(e)]))

\* The events of one type among evs, in order
Only(evs, type) ==
    LET at == Of(evs, type)
    IN [k \in 1..Cardinality(at) |->
          evs[CHOOSE j \in at : Cardinality({i \in at : i <= j}) = k]]

\* The frame is the first one of a bundle: a text, or a binary message with its
\* envelope; the other frames are the entries of a list
IsHead(frame) == frame.kind = "text" \/ frame.prefix # <<>>

\* The frames send hands to the transport for a bundle, in order
FramesOf(bundle) ==
    IF bundle.binaryData.kind = "array"
    THEN <<Stringify(bundle.message)>>
         \o [k \in DOMAIN bundle.binaryData.items |-> RawFrame(bundle.binaryData.items[k])]
    ELSE <<Encoded(bundle)>>

\* The call number the first frame of a bundle carries
CallOf(frame) == IF frame.kind = "text" THEN frame.q ELSE frame.json.q

\* The frames of the bundle were raised as rawSend at increasing positions of
\* evs before position j, its first frame once only
RaisedBefore(evs, bundle, j) ==
    LET frames == FramesOf(bundle)
        raw == {k \in Of(evs, "rawSend") : k < j}
    IN /\ Cardinality({k \in Of(evs, "rawSend") :
                          IsHead(evs[k].data)
                          /\ CallOf(evs[k].data) = bundle.message.q}) = 1
       /\ \E at \in [DOMAIN frames -> raw] :
             /\ \A k \in DOMAIN frames : evs[at[k]].data = frames[k]
             /\ \A k \in DOMAIN frames : k > 1 => at[k - 1] < at[k]

C31_Step ==
    \A e \in Conns :
       LET new == NewEvents(e) IN
       /\ [k \in DOMAIN Only(new, "rawSend") |-> Only(new, "rawSend")[k].data]
             = Transmitted(e)
       /\ Cardinality(Of(new, "send"))
             = Cardinality({k \in Of(new, "rawSend") : IsHead(new[k].data)})
       /\ \A j \in Of(new, "send") : RaisedBefore(new, new[j].bundle, j)
       /\ (readyState[e] # "OPEN" /\ readyState'[e] # "OPEN") =>
             Of(new, "rawSend") = {} /\ Of(new, "send") = {}

C31_Once ==
    \A e \in Conns :
       /\ \A j, k \in Of(events[e], "send") :
             events[e][j].bundle.message.q = events[e][k].bundle.message.q => j = k
       /\ \A k \in DOMAIN queuedMessages[e], j \in DOMAIN events[e] :
             /\ events[e][j].type = "send" =>
                   events[e][j].bundle.message.q # queuedMessages[e][k].messageBundle.message.q
             /\ (events[e][j].type = "rawSend" /\ IsHead(events[e][j].data)) =>
                   CallOf(events[e][j].data) # queuedMessages[e][k].messageBundle.message.q

\* C31: what a step hands to the transport is, frame by frame and in order,
\* the data of the rawSend events of the step; every bundle that is
\* transmitted raises one send event, after the rawSend of its last frame, and
\* never a second one; a bundle that is only queued has raised neither event.
C31_Events == []C31_Once /\ [][C31_Step]_vars

\* The client has sent a list of two frames while its listener of rawSend
\* posted from inside the event of the control envelope: the rawSend and the
\* send event of the listener's message lie between the rawSend of the
\* control envelope and that of the first frame
C31_Witness ==
    \E h, i, j, k \in DOMAIN events["client"] :
       /\ j = i + 1 /\ h < i /\ j < k
       /\ events["client"][h].type = "rawSend"
       /\ events["client"][h].data.kind = "text"
       /\ Get(events["client"][h].data.obj, "f") = JsNum(2)
       /\ events["client"][i].type = "send"
       /\ events["client"][i].bundle.message.q = ListenerCall("rawSendOfList", 1)
       /\ events["client"][j].type = "rawSend"
       /\ events["client"][j].data = RawFrame(Frame(1))
       /\ events["client"][k].type = "send"
       /\ events["client"][k].bundle.binaryData = Frames(2)

\* The step closes the transport of e: close() was called, or the socket's
\* close event fired
Closing(e) == readyState'[e] # readyState[e] /\ readyState'[e] \in {"CLOSING", "CLOSED"}

C32_Step ==
    \A e \in Conns :
       Closing(e) =>
          /\ responseCallbacks'[e] = responseCallbacks[e]
          /\ binaryBuffer'[e] = binaryBuffer[e]
          /\ responses'[e] = responses[e]
          /\ \A k \in DOMAIN NewEvents(e) :
                NewEvents(e)[k].type \in {"close", "disconnect", "status"}
          /\ wire'[Peer(e)] = wire[Peer(e)]
          /\ IF eventCallbacks[e]["status"] = 0 \/ readyState'[e] = "CLOSING"
             THEN queuedMessages'[e] = queuedMessages[e]
             ELSE /\ Len(queuedMessages'[e]) = Len(queuedMessages[e]) + 1
                  /\ SubSeq(queuedMessages'[e], 1, Len(queuedMessages[e]))
                        = queuedMessages[e]
                  /\ Last(queuedMessages'[e]).messageBundle.message.r = JsStr("/listener")

\* C32: the socket's close event and a call of close leave the pending
\* callbacks and the reassembly buffer of the connection as they were, invoke
\* no callback, dispatch and drop nothing and transmit nothing; the queue is as
\* it was, but for a message a listener of the application's passes to send
\* from inside the status event.
C32_Close == [][C32_Step]_vars

\* The server's connection has closed with one of two frames of a transfer
\* received and the callback of its keepalive ping pending
C32_Witness ==
    /\ readyState["server"] = "CLOSED"
    /\ binaryBuffer["server"].pending
    /\ binaryBuffer["server"].length = JsNum(2)
    /\ Len(binaryBuffer["server"].messageBuffer) = 1
    /\ DOMAIN responseCallbacks["server"] # {}
C33_Step ==
    \A e \in Conns :
       readyState[e] = "CLOSED" =>
          /\ readyState'[e] = "CLOSED"
          /\ Transmitted(e) = <<>>
          /\ Of(NewEvents(e), "rawSend") = {} /\ Of(NewEvents(e), "send") = {}
          /\ Len(queuedMessages'[e]) >= Len(queuedMessages[e])
          /\ SubSeq(queuedMessages'[e], 1, Len(queuedMessages[e])) = queuedMessages[e]
          /\ responseCallbacks'[e] = responseCallbacks[e]
          /\ (budget'.sends < budget.sends /\ events'[Peer(e)] = events[Peer(e)]
                 /\ queuedMessages'[Peer(e)] = queuedMessages[Peer(e)]) =>
                Len(queuedMessages'[e]) = Len(queuedMessages[e]) + 1

Pending(e) == {responseCallbacks[e][id] : id \in DOMAIN responseCallbacks[e]}

C34_Queued ==
    \A e \in Conns : \A k \in DOMAIN queuedMessages[e] :
       queuedMessages[e][k].callback.kind # "none" =>
          /\ queuedMessages[e][k].messageBundle.message.i = JsUndefined
          /\ queuedMessages[e][k].callback \notin Pending(e)

C34_Step ==
    \A e \in Conns :
       /\ Len(queuedMessages'[e]) > Len(queuedMessages[e]) =>
             responseCallbacks'[e] = responseCallbacks[e]
       /\ (NewEvents(e) # <<>> /\ NewEvents(e)[1].type = "open") =>
             \A k \in DOMAIN queuedMessages[e] :
                LET queued == queuedMessages[e][k]
                    sends == {j \in Of(NewEvents(e), "send") :
                                 NewEvents(e)[j].bundle.message.q
                                    = queued.messageBundle.message.q}
                IN /\ Cardinality(sends) = 1
                   /\ \A j \in sends :
                         LET sent == NewEvents(e)[j] IN
                         /\ sent.callback = queued.callback
                         /\ queued.callback.kind = "none" =>
                               sent.bundle.message.i = queued.messageBundle.message.i
                         /\ queued.callback.kind # "none" =>
                               /\ sent.bundle.message.i \in {JsStr(id) : id \in generateUniqueId}
                               /\ \/ responseCallbacks'[e][sent.bundle.message.i.s]
                                        = queued.callback
                                  \/ \E later \in Of(NewEvents(e), "send") :
                                        /\ later > j
                                        /\ NewEvents(e)[later].callback.kind # "none"
                                        /\ NewEvents(e)[later].bundle.message.i
                                              = sent.bundle.message.i

\* C34: a message queued with a callback has no id, and its callback is not
\* in the map of pending callbacks; queueing leaves the map as it was.  The
\* flush of the open event transmits each queued message once, gives one that
\* has a callback an id drawn then, and registers the callback under that id,
\* where it stays unless a later send of the flush draws the same id.
C34_Deferred == []C34_Queued /\ [][C34_Step]_vars

\* The client is connecting; its application has sent a list of frames with a
\* callback, which is queued behind the keepalive ping, and no callback is
\* pending
C34_Witness ==
    /\ readyState["client"] = "CONNECTING"
    /\ Len(queuedMessages["client"]) = 2
    /\ queuedMessages["client"][2].callback.kind = "app"
    /\ queuedMessages["client"][2].messageBundle.binaryData = Frames(2)
    /\ queuedMessages["client"][2].messageBundle.message.i = JsUndefined
    /\ responseCallbacks["client"] = <<>>
\* The call numbers of the bundles a step of e transmits, in the order of
\* their first frames
CallsTransmitted(e) ==
    LET raw == Only(NewEvents(e), "rawSend")
        heads == {k \in DOMAIN raw : IsHead(raw[k].data)}
    IN [k \in 1..Cardinality(heads) |->
          CallOf(raw[CHOOSE j \in heads : Cardinality({i \in heads : i <= j}) = k].data)]

\* The call numbers of the messages queued at e: the calls of send made
\* before the step that have not been transmitted
CallsQueued(e) ==
    {queuedMessages[e][k].messageBundle.message.q : k \in DOMAIN queuedMessages[e]}

\* In the step, no message of a call made during the step is transmitted
\* before a message that was queued when the step began
InCallOrder(e) ==
    \A i, j \in DOMAIN CallsTransmitted(e) :
       i < j => ~(CallsTransmitted(e)[i] \notin CallsQueued(e)
                  /\ CallsTransmitted(e)[j] \in CallsQueued(e))

\* C35 as stated: on one connection the transport sends are in the order of
\* the send calls that produced them, also when send is called from a
\* listener of open, connect, connected or status while messages queued
\* earlier have not been flushed.
C35_Stated == [][\A e \in Conns : InCallOrder(e)]_vars

\* Without a listener that sends from inside open or status, the transport
\* sends of a step are in the order of the calls
C35_Unheard ==
    [][\A e \in Conns :
          eventCallbacks[e] = NoListener => InCallOrder(e)]_vars

\* The frame is the control envelope of a list of frames
FramesAnnounced(frame) ==
    IF frame.kind = "text" /\ frame.ok /\ Get(frame.obj, "f").t = "number"
    THEN Get(frame.obj, "f").n ELSE 0

\* C36 as stated: the transport sends of a bundle with a list of N frames are
\* consecutive: the control envelope is followed at once by the N frames, also
\* when a listener of rawSend calls send during the transfer.
C36_Stated ==
    [][\A e \in Conns :
          LET raw == Only(NewEvents(e), "rawSend") IN
          \A k \in DOMAIN raw :
             \A j \in 1..FramesAnnounced(raw[k].data) :
                k + j \in DOMAIN raw /\ ~IsHead(raw[k + j].data)]_vars

\* Without a listener of rawSend that sends, the frames follow their control
\* envelope at once
C36_Unheard ==
    [][\A e \in Conns :
          LET raw == Only(NewEvents(e), "rawSend") IN
          (eventCallbacks[e]["rawSend"] = 0 /\ eventCallbacks[e]["rawSendOfList"] = 0) =>
             \A k \in DOMAIN raw :
                \A j \in 1..FramesAnnounced(raw[k].data) :
                   k + j \in DOMAIN raw /\ ~IsHead(raw[k + j].data)]_vars
\* The frame is a text that parses to an envelope with a frameCount: a
\* control envelope
IsControl(frame) ==
    /\ frame.kind = "text"
    /\ ~Unparsable(frame)
    /\ Get(frame.obj, "f") \notin {JsNull, JsUndefined}

\* The payloads of the binary frames e received after its last control
\* envelope and before the event at position k
FramesSinceControl(e, k) ==
    LET controls == {j \in Of(events[e], "rawMessage") :
                        j < k /\ IsControl(events[e][j].data)}
        last == IF controls = {} THEN 0
                ELSE CHOOSE j \in controls : \A i \in controls : i <= j
        at == {j \in Of(events[e], "rawMessage") :
                  j > last /\ j < k /\ events[e][j].data.kind = "binary"}
    IN [n \in 1..Cardinality(at) |->
          events[e][CHOOSE j \in at : Cardinality({i \in at : i <= j}) = n].data.whole]

C37_Dispatched ==
    \A e \in Conns : \A k \in Of(events[e], "dispatch") :
       events[e][k].binaryData.kind = "array" =>
          events[e][k].binaryData.items = FramesSinceControl(e, k)

C37_Step ==
    \A e \in Conns :
       (Received(e) /\ IsControl(NewEvents(e)[1].data)) =>
          /\ binaryBuffer'[e] =
                BinaryBuffer(Get(NewEvents(e)[1].data.obj, "f"),
                             MessageFromString(NewEvents(e)[1].data).message)
          /\ binaryBuffer'[e].messageBuffer = <<>>
          /\ Len(NewEvents(e)) = 1

\* C37: a control envelope makes a new, empty reassembly buffer the one
\* pending buffer of the connection, whether or not a buffer was pending, and
\* nothing is dispatched or dropped at that moment; a list of frames that is
\* dispatched consists of the frames received after the last control
\* envelope, so the frames of a transfer that was replaced are never
\* dispatched.
C37_Replaced == []C37_Dispatched /\ [][C37_Step]_vars

\* The server received the control envelope of two frames, one frame, the
\* control envelope of one frame and one frame: it dispatched the second
\* transfer with its one frame
C37_Witness ==
    \E h \in DOMAIN events["server"] :
       /\ h + 4 \in DOMAIN events["server"]
       /\ events["server"][h] = [type |-> "rawMessage", data |-> Control(JsNum(2))]
       /\ events["server"][h + 1] = [type |-> "rawMessage", data |-> RawFrame(ChunkA)]
       /\ events["server"][h + 2] = [type |-> "rawMessage", data |-> Control(JsNum(1))]
       /\ events["server"][h + 3] = [type |-> "rawMessage", data |-> RawFrame(ChunkBig)]
       /\ events["server"][h + 4].type = "dispatch"
       /\ events["server"][h + 4].binaryData = ArrayBinary(<<ChunkBig>>)
       /\ ~binaryBuffer["server"].pending
\* The frame is a valid text message without frameCount: it parses, it
\* passes the schema, and it is within the maximum message size
IsPlainText(frame) ==
    /\ frame.kind = "text"
    /\ ~Unparsable(frame)
    /\ Get(frame.obj, "f") \in {JsNull, JsUndefined}
    /\ SchemaValidate(MESSAGE_BUNDLE_SCHEMA, MessageFromString(frame).message)
    /\ frame.len <= MAX_MESSAGE_SIZE

\* C38: a valid text message without frameCount that arrives while a
\* reassembly is pending is dispatched in the same step, once, to the
\* listeners of its method with its route and body, and the pending buffer
\* (its target count, its control envelope and the frames received) is left
\* as it was.
C38_Between ==
    [][\A e \in Conns :
         (Received(e) /\ IsPlainText(NewEvents(e)[1].data) /\ binaryBuffer[e].pending) =>
            LET message == MessageFromString(NewEvents(e)[1].data).message
                dispatched == Of(NewEvents(e), "dispatch")
            IN /\ binaryBuffer'[e] = binaryBuffer[e]
               /\ dispatched = {2}
               /\ NewEvents(e)[2].method = message.m.s
               /\ NewEvents(e)[2].route = message.r
               /\ NewEvents(e)[2].body = message.b
               /\ NewEvents(e)[2].binaryData = NoBinary
               /\ Of(NewEvents(e), "droppedMessage") = {}]_vars

\* The server received the control envelope of two frames, one frame, a post
\* message, which it dispatched, and the second frame, which completed the
\* transfer with both frames
C38_Witness ==
    \E h \in DOMAIN events["server"] :
       /\ h + 5 \in DOMAIN events["server"]
       /\ events["server"][h] = [type |-> "rawMessage", data |-> Control(JsNum(2))]
       /\ events["server"][h + 1] = [type |-> "rawMessage", data |-> RawFrame(ChunkA)]
       /\ events["server"][h + 2].type = "rawMessage"
       /\ IsPlainText(events["server"][h + 2].data)
       /\ events["server"][h + 3].type = "dispatch"
       /\ events["server"][h + 3].method = "post"
       /\ events["server"][h + 3].binaryData = NoBinary
       /\ events["server"][h + 4] = [type |-> "rawMessage", data |-> RawFrame(ChunkBig)]
       /\ events["server"][h + 5].type = "dispatch"
       /\ events["server"][h + 5].binaryData = ArrayBinary(<<ChunkA, ChunkBig>>)

-----------------------------------------------------------------------------
(* The ids of the pending callbacks.                                       *)

\* The positions of the sends of the step at e that registered a callback
Registering(e) == {k \in Of(NewEvents(e), "send") : NewEvents(e)[k].callback.kind # "none"}

\* The id under which the k-th event of the step registered its callback
RegisteredId(e, k) == NewEvents(e)[k].bundle.message.i.s

\* C39 as stated: registering a callback never overwrites an entry of the
\* pending-callback map: the id send generates differs from every id that is
\* pending, the ids pending before the step and the ids registered earlier in
\* the step.
C39_Stated ==
    [][\A e \in Conns : \A k \in Registering(e) :
          /\ RegisteredId(e, k) \notin DOMAIN responseCallbacks[e]
          /\ \A j \in Registering(e) : j < k => RegisteredId(e, j) # RegisteredId(e, k)]_vars

-----------------------------------------------------------------------------
(* The network id of the two ends.                                         *)

\* The positions of the pings e has processed that came from the network
\* network: the 'ping' listener was called with a response object
PingsFrom(e, network) ==
    {k \in Of(events[e], "dispatch") :
        /\ events[e][k].method = "ping"
        /\ events[e][k].response # 0
        /\ events[e][k].bundle.message.n = network}

\* C40: the connection the server accepted has the network id 'toolbox' until
\* it has processed the first keepalive ping of the client, whose network id
\* net1 is not 'toolbox'; from then on its network id is net1 and stays net1,
\* and it has announced the change once.  The pings of the server never
\* change the network id of the client.
C40_Network ==
    /\ networkId["client"] = JsStr("net1")
    /\ Of(events["client"], "network") = {}
    /\ IF PingsFrom("server", JsStr("net1")) = {}
       THEN /\ networkId["server"] = JsStr("toolbox")
            /\ Of(events["server"], "network") = {}
       ELSE /\ networkId["server"] = JsStr("net1")
            /\ Cardinality(Of(events["server"], "network")) = 1
            /\ \A k \in Of(events["server"], "network") :
                  /\ events["server"][k].network = JsStr("net1")
                  /\ events["server"][k].previous = JsStr("toolbox")

\* The server has processed the keepalive ping of the client and has the
\* client's network id; the client has processed a ping the server sent as
\* 'toolbox' and one it sent as net1, and has kept its network id
C40_Witness ==
    /\ PingsFrom("server", JsStr("net1")) # {}
    /\ networkId["server"] = JsStr("net1")
    /\ PingsFrom("client", JsStr("toolbox")) # {}
    /\ PingsFrom("client", JsStr("net1")) # {}
    /\ networkId["client"] = JsStr("net1")

====
